---- MODULE Spec2Model ----
(***************************************************************************)
(* Model of ChessGptt's feature extraction.                                *)
(*                                                                         *)
(*   src/features/features.py        heuristic extractor and differ        *)
(*   src/backend/feature_vectors.py  vector extractor with optional engine *)
(*                                                                         *)
(* The heuristic code is written against the python-chess board object;    *)
(* the board queries it calls (piece_at, pieces, king, is_attacked_by,     *)
(* is_pinned, has_castling_rights, legal_moves and the Board constructor)  *)
(* are modelled here by what those calls compute.                          *)
(***************************************************************************)
EXTENDS Integers, Sequences, FiniteSets, TLC

\* ------------------------------------------------------------------------
\* Squares and pieces.  chess.WHITE is True and chess.BLACK is False; a piece
\* is written with its FEN letter and an empty square with ".".
\* ------------------------------------------------------------------------
WHITE == TRUE

BLACK == FALSE

SQUARES == 0..63

\* The function f written out as a table of its values (the same function:
\* a function given by a rule would be computed again at every lookup).
Table(f) == f @@ f

NoSquare == -1

square_file(sq) == sq % 8

square_rank(sq) == sq \div 8

\* chess.square(file_index, rank_index): plain arithmetic, no range check.
square(f, r) == r * 8 + f

OnBoard(f, r) == f >= 0 /\ f < 8 /\ r >= 0 /\ r < 8

Empty == "."

WhiteSymbols == {"P", "N", "B", "R", "Q", "K"}

BlackSymbols == {"p", "n", "b", "r", "q", "k"}

PieceSymbols == WhiteSymbols \cup BlackSymbols

\* Piece.piece_type, written with the lower-case letter.
TypeOf == [P |-> "p", N |-> "n", B |-> "b", R |-> "r", Q |-> "q", K |-> "k",
           p |-> "p", n |-> "n", b |-> "b", r |-> "r", q |-> "q", k |-> "k"]

UpperOf == [p |-> "P", n |-> "N", b |-> "B", r |-> "R", q |-> "Q", k |-> "K"]

\* Piece(piece_type, color).symbol()
Sym(type, color) == IF color THEN UpperOf[type] ELSE type

SymbolsOf(color) == IF color THEN WhiteSymbols ELSE BlackSymbols

\* board.color_at(sq) = color, for an occupied or an empty square
HasColor(board, sq, color) == board.pieces[sq] \in SymbolsOf(color)

\* board.pieces(piece_type, color): the squares holding that piece
pieces(board, type, color) ==
    {sq \in SQUARES : board.pieces[sq] = Sym(type, color)}

\* board.piece_map(): the occupied squares
piece_map(board) == {sq \in SQUARES : board.pieces[sq] # Empty}

Max(S) == CHOOSE x \in S : \A y \in S : y <= x

\* board.king(color): the highest square holding a king of that colour, or
\* None (NoSquare) when there is none.
king(board, color) ==
    LET ks == pieces(board, "k", color)
    IN  IF ks = {} THEN NoSquare ELSE Max(ks)

\* ------------------------------------------------------------------------
\* Attack oracle: board.is_attacked_by(color, square).
\* ------------------------------------------------------------------------
KnightOffsets == {<<1, 2>>, <<2, 1>>, <<2, -1>>, <<1, -2>>,
                  <<-1, -2>>, <<-2, -1>>, <<-2, 1>>, <<-1, 2>>}

KingOffsets == {<<1, 0>>, <<1, 1>>, <<0, 1>>, <<-1, 1>>,
                <<-1, 0>>, <<-1, -1>>, <<0, -1>>, <<1, -1>>}

RookDirs == {<<1, 0>>, <<-1, 0>>, <<0, 1>>, <<0, -1>>}

BishopDirs == {<<1, 1>>, <<1, -1>>, <<-1, 1>>, <<-1, -1>>}

\* chess.BB_KNIGHT_ATTACKS[sq] and chess.BB_KING_ATTACKS[sq] as square sets
Jumps(sq, offsets) ==
    {square(square_file(sq) + o[1], square_rank(sq) + o[2]) :
        o \in {x \in offsets :
                 OnBoard(square_file(sq) + x[1], square_rank(sq) + x[2])}}

KnightTable == Table([sq \in SQUARES |-> Jumps(sq, KnightOffsets)])

KingTable == Table([sq \in SQUARES |-> Jumps(sq, KingOffsets)])

BB_KNIGHT_ATTACKS(sq) == KnightTable[sq]

BB_KING_ATTACKS(sq) == KingTable[sq]

\* chess.BB_PAWN_ATTACKS[color][sq]: the squares a pawn of `color` on sq attacks
BB_PAWN_ATTACKS(color, sq) ==
    LET r == square_rank(sq) + (IF color THEN 1 ELSE -1)
    IN  {square(square_file(sq) + df, r) :
           df \in {d \in {-1, 1} : OnBoard(square_file(sq) + d, r)}}

\* Walk from (f, r) in direction (df, dr): is the first occupied square one
\* of `targets`?  (sliding attack with blocker)
RECURSIVE RayHits(_, _, _, _, _, _)
RayHits(ps, f, r, df, dr, targets) ==
    IF ~OnBoard(f + df, r + dr) THEN FALSE
    ELSE LET p == ps[square(f + df, r + dr)]
         IN  IF p = Empty THEN RayHits(ps, f + df, r + dr, df, dr, targets)
             ELSE p \in targets

\* Is `sq` attacked by a piece of `color` in the placement ps?
Attacked(ps, color, sq) ==
    LET f == square_file(sq)
        r == square_rank(sq)
    IN  \/ \E s \in KnightTable[sq] : ps[s] = Sym("n", color)
        \/ \E s \in KingTable[sq] : ps[s] = Sym("k", color)
        \/ \E s \in BB_PAWN_ATTACKS(~color, sq) : ps[s] = Sym("p", color)
        \/ \E d \in RookDirs :
              RayHits(ps, f, r, d[1], d[2], {Sym("r", color), Sym("q", color)})
        \/ \E d \in BishopDirs :
              RayHits(ps, f, r, d[1], d[2], {Sym("b", color), Sym("q", color)})


\* ------------------------------------------------------------------------
\* Board codec: chess.Board(fen).  A board string is held as its fields: the
\* placement is the sequence of its eight "/"-separated rows, rank 8 first,
\* each row a sequence of one-character tokens; turn is "w" or "b"; castling
\* is the set of flags of the castling field; ep is the en-passant square or
\* NoSquare for "-".  The two counters do not reach any feature.
\* ------------------------------------------------------------------------
DigitVal == ("1" :> 1) @@ ("2" :> 2) @@ ("3" :> 3) @@ ("4" :> 4) @@
            ("5" :> 5) @@ ("6" :> 6) @@ ("7" :> 7) @@ ("8" :> 8)

Digits == DOMAIN DigitVal

RECURSIVE FieldSum(_)
FieldSum(row) ==
    IF row = <<>> THEN 0
    ELSE (IF Head(row) \in Digits THEN DigitVal[Head(row)] ELSE 1)
         + FieldSum(Tail(row))

\* One row of the placement is well formed: known tokens, no two digits in a
\* row, eight squares in all.
RowOk(row) ==
    /\ \A i \in 1..Len(row) : row[i] \in Digits \cup PieceSymbols
    /\ \A i \in 1..(Len(row) - 1) : ~(row[i] \in Digits /\ row[i + 1] \in Digits)
    /\ FieldSum(row) = 8

RECURSIVE Blanks(_)
Blanks(n) == IF n = 0 THEN <<>> ELSE <<Empty>> \o Blanks(n - 1)

RECURSIVE ExpandRow(_)
ExpandRow(row) ==
    IF row = <<>> THEN <<>>
    ELSE (IF Head(row) \in Digits THEN Blanks(DigitVal[Head(row)])
          ELSE <<Head(row)>>) \o ExpandRow(Tail(row))

\* Board(fen) raises ValueError: the constructor checks the structure of the
\* fields only.  The number of kings is checked by Board.status()/is_valid(),
\* which the extractor never calls.
FenRaises(fen) ==
    \/ Len(fen.placement) # 8
    \/ \E i \in 1..Len(fen.placement) : ~RowOk(fen.placement[i])
    \/ fen.turn \notin {"w", "b"}

\* The fields of a board string that parses, as the board holds them: row i
\* of the placement is rank 8 - i.
Position(fen) ==
    LET rows == Table([i \in 1..8 |-> ExpandRow(fen.placement[i])])
    IN  [pieces |-> Table([sq \in SQUARES |->
                             rows[8 - square_rank(sq)][square_file(sq) + 1]]),
         turn |-> (fen.turn = "w"),
         castling_rights |-> fen.castling,
         ep_square |-> fen.ep]

\* board.has_castling_rights(color): a right of the castling field counts
\* only while the king stands on its e-file home square and a rook of the
\* colour stands on the corner (Board.clean_castling_rights).
CastlingRight(board, color, side) ==
    LET r == IF color THEN 0 ELSE 7
        corner == square(IF side = "k" THEN 7 ELSE 0, r)
    IN  /\ Sym(side, color) \in board.castling_rights
        /\ board.pieces[square(4, r)] = Sym("k", color)
        /\ board.pieces[corner] = Sym("r", color)

has_castling_rights(board, color) ==
    CastlingRight(board, color, "k") \/ CastlingRight(board, color, "q")

\* ------------------------------------------------------------------------
\* Move generator: board.legal_moves.
\* ------------------------------------------------------------------------
RECURSIVE RaySquares(_, _, _, _, _)
RaySquares(ps, f, r, df, dr) ==
    IF ~OnBoard(f + df, r + dr) THEN {}
    ELSE IF ps[square(f + df, r + dr)] = Empty
         THEN {square(f + df, r + dr)} \cup RaySquares(ps, f + df, r + dr, df, dr)
         ELSE {square(f + df, r + dr)}

\* board.attacks(sq): the squares the piece on sq attacks
AttacksFrom(ps, sq) ==
    LET t == TypeOf[ps[sq]]
        f == square_file(sq)
        r == square_rank(sq)
        dirs == CASE t = "r" -> RookDirs
                  [] t = "b" -> BishopDirs
                  [] OTHER -> RookDirs \cup BishopDirs
    IN  IF t = "n" THEN BB_KNIGHT_ATTACKS(sq)
        ELSE IF t = "k" THEN BB_KING_ATTACKS(sq)
        ELSE IF t = "p" THEN BB_PAWN_ATTACKS(ps[sq] \in WhiteSymbols, sq)
        ELSE UNION {RaySquares(ps, f, r, d[1], d[2]) : d \in dirs}

\* Every square a piece of `color` attacks.
AttackSet(ps, color) ==
    UNION {AttacksFrom(ps, sq) : sq \in {x \in SQUARES : ps[x] \in SymbolsOf(color)}}

Mv(from, to, promo, kind) ==
    [from_square |-> from, to_square |-> to, promotion |-> promo, kind |-> kind]

PromotionTypes == {"q", "r", "b", "n"}

\* A pawn arriving on `to`: four promotions on a last rank, else one move.
PawnArrivals(from, to, kind) ==
    IF square_rank(to) \in {0, 7}
    THEN {Mv(from, to, t, kind) : t \in PromotionTypes}
    ELSE {Mv(from, to, "", kind)}

PawnMoves(board, sq) ==
    LET ps == board.pieces
        c == board.turn
        f == square_file(sq)
        r == square_rank(sq)
        dr == IF c THEN 1 ELSE -1
        caps == BB_PAWN_ATTACKS(c, sq)
        one == OnBoard(f, r + dr) /\ ps[square(f, r + dr)] = Empty
        \* a double push ends on rank 3 or 4 for white, 6 or 5 for black
        two == /\ one
               /\ OnBoard(f, r + 2 * dr)
               /\ ps[square(f, r + 2 * dr)] = Empty
               /\ (r + 2 * dr) \in (IF c THEN {2, 3} ELSE {5, 4})
        eprank == IF c THEN 4 ELSE 3
    IN  UNION {PawnArrivals(sq, t, "normal") :
                 t \in {x \in caps : ps[x] \in SymbolsOf(~c)}}
        \cup (IF one THEN PawnArrivals(sq, square(f, r + dr), "normal") ELSE {})
        \cup (IF two THEN {Mv(sq, square(f, r + 2 * dr), "", "normal")} ELSE {})
        \cup {Mv(sq, t, "", "ep") :
                t \in {x \in caps : /\ x = board.ep_square
                                    /\ ps[x] = Empty
                                    /\ r = eprank}}

PieceMoves(board, sq) ==
    {Mv(sq, t, "", "normal") :
        t \in {x \in AttacksFrom(board.pieces, sq) :
                 board.pieces[x] \notin SymbolsOf(board.turn)}}

\* Castling: the right is held, the squares between king and rook are empty,
\* the king's square and the square it crosses are not attacked (the king
\* taken off the board); its landing square is tested with the move made.
CastlingMoves(board) ==
    LET ps == board.pieces
        c == board.turn
        r == IF c THEN 0 ELSE 7
        e == square(4, r)
        noKing == [ps EXCEPT ![e] = Empty]
    IN  (IF /\ CastlingRight(board, c, "k")
            /\ ps[square(5, r)] = Empty /\ ps[square(6, r)] = Empty
            /\ ~Attacked(noKing, ~c, e) /\ ~Attacked(noKing, ~c, square(5, r))
         THEN {Mv(e, square(6, r), "", "castle")} ELSE {})
        \cup
        (IF /\ CastlingRight(board, c, "q")
            /\ ps[square(1, r)] = Empty /\ ps[square(2, r)] = Empty
            /\ ps[square(3, r)] = Empty
            /\ ~Attacked(noKing, ~c, e) /\ ~Attacked(noKing, ~c, square(3, r))
         THEN {Mv(e, square(2, r), "", "castle")} ELSE {})

PseudoLegalMoves(board) ==
    LET own == {sq \in SQUARES : board.pieces[sq] \in SymbolsOf(board.turn)}
    IN  UNION {IF TypeOf[board.pieces[sq]] = "p" THEN PawnMoves(board, sq)
               ELSE PieceMoves(board, sq) : sq \in own}
        \cup CastlingMoves(board)

\* The placement after a move.
Moved(ps, m) ==
    LET p == ps[m.from_square]
        placed == IF m.promotion = "" THEN p
                  ELSE Sym(m.promotion, p \in WhiteSymbols)
        base == [ps EXCEPT ![m.from_square] = Empty, ![m.to_square] = placed]
        r == square_rank(m.from_square)
    IN  CASE m.kind = "ep" ->
               [base EXCEPT ![square(square_file(m.to_square), r)] = Empty]
          [] m.kind = "castle" ->
               IF square_file(m.to_square) = 6
               THEN [base EXCEPT ![square(7, r)] = Empty,
                                 ![square(5, r)] = ps[square(7, r)]]
               ELSE [base EXCEPT ![square(0, r)] = Empty,
                                 ![square(3, r)] = ps[square(0, r)]]
          [] OTHER -> base

\* Board.generate_legal_moves: the pseudo-legal moves that do not leave the
\* mover's king attacked; with no king of the side to move, every
\* pseudo-legal move.
GenerateLegalMoves(board) ==
    LET k == king(board, board.turn)
    IN  IF k = NoSquare THEN PseudoLegalMoves(board)
        ELSE {m \in PseudoLegalMoves(board) :
                ~Attacked(Moved(board.pieces, m), ~board.turn,
                          IF m.from_square = k THEN m.to_square ELSE k)}

\* The board object built by Board(fen).  A board is not changed after it
\* is built, so the answers of its two costly queries are held with it:
\* attacked[color] is the set of squares sq with is_attacked_by(color, sq),
\* legal_moves the list board.legal_moves generates.
Board(fen) ==
    LET pos == Position(fen)
    IN  [pieces |-> pos.pieces,
         turn |-> pos.turn,
         castling_rights |-> pos.castling_rights,
         ep_square |-> pos.ep_square,
         attacked |-> Table([color \in BOOLEAN |-> AttackSet(pos.pieces, color)]),
         legal_moves |-> GenerateLegalMoves(pos)]

is_attacked_by(board, color, sq) == sq \in board.attacked[color]

legal_moves(board) == board.legal_moves

\* board.is_pinned(color, sq): sq lies on a line with the colour's king, no
\* other piece stands between them, and the first piece beyond sq on that
\* line is an enemy slider that moves along it.  Without a king nothing is
\* pinned.
RECURSIVE FirstOccupied(_, _, _, _, _)
FirstOccupied(ps, f, r, df, dr) ==
    IF ~OnBoard(f + df, r + dr) THEN NoSquare
    ELSE IF ps[square(f + df, r + dr)] # Empty THEN square(f + df, r + dr)
         ELSE FirstOccupied(ps, f + df, r + dr, df, dr)

Sign(x) == IF x > 0 THEN 1 ELSE IF x < 0 THEN -1 ELSE 0

Abs(x) == IF x < 0 THEN -x ELSE x

is_pinned(board, color, sq) ==
    LET k == king(board, color)
        ps == board.pieces
        kf == square_file(k)
        kr == square_rank(k)
        df == square_file(sq) - kf
        dr == square_rank(sq) - kr
        straight == df = 0 \/ dr = 0
        sniper == FirstOccupied(ps, square_file(sq), square_rank(sq),
                                Sign(df), Sign(dr))
    IN  /\ k # NoSquare
        /\ sq # k
        /\ straight \/ Abs(df) = Abs(dr)
        /\ FirstOccupied(ps, kf, kr, Sign(df), Sign(dr)) = sq
        /\ sniper # NoSquare
        /\ ps[sniper] \in {Sym(IF straight THEN "r" ELSE "b", ~color),
                           Sym("q", ~color)}

\* board.piece_at(s): the square table is indexed as a Python list, so an
\* index in -64..-1 counts from the end and any other index outside 0..63
\* raises IndexError.
piece_at(board, s) == board.pieces[IF s < 0 THEN s + 64 ELSE s]

PieceAtRaises(s) == s >= 64 \/ s < -64

\* ------------------------------------------------------------------------
\* Feature bank (ChessFeatureExtractor, src/features/features.py).
\* ------------------------------------------------------------------------
RECURSIVE SumOver(_, _)
SumOver(S, f) ==
    IF S = {} THEN 0
    ELSE LET x == CHOOSE y \in S : TRUE
         IN  f[x] + SumOver(S \ {x}, f)

piece_values == [p |-> 1, n |-> 3, b |-> 3, r |-> 5, q |-> 9, k |-> 0]

\* get_material returns the pair (white, black); here one colour's part.
get_material(board, color) ==
    SumOver({sq \in SQUARES : board.pieces[sq] \in SymbolsOf(color)},
            [sq \in SQUARES |-> piece_values[TypeOf[board.pieces[sq]]]])

\* get_mobility counting the moves that leave the mover's king attacked too
get_mobility_pseudo_legal(board) == Cardinality(PseudoLegalMoves(board))

get_mobility(board) == Cardinality(legal_moves(board))

\* get_king_safety without the castling test
get_king_safety_squares_only(board, color) ==
    LET king_sq == king(board, color)
        unsafe == Cardinality({sq \in BB_KING_ATTACKS(king_sq) :
                                 is_attacked_by(board, ~color, sq)})
    IN  IF unsafe <= 2 THEN "Safe" ELSE "Exposed"

get_king_safety(board, color) ==
    LET king_sq == king(board, color)
        castled == has_castling_rights(board, color) = FALSE
        unsafe == Cardinality({sq \in BB_KING_ATTACKS(king_sq) :
                                 is_attacked_by(board, ~color, sq)})
    IN  IF unsafe <= 2 /\ castled THEN "Safe" ELSE "Exposed"

\* BB_KING_ATTACKS[None] raises TypeError
get_king_safety_raises(board, color) == king(board, color) = NoSquare

\* the files of the colour's pawns, set(files)
PawnFiles(board, color) == {square_file(sq) : sq \in pieces(board, "p", color)}

\* IsolatedFiles looking at the next higher file only
IsolatedFiles_right_only(files) ==
    {f \in files : \A other \in files \ {f} : other - f # 1}

IsolatedFiles(files) ==
    {f \in files : \A other \in files \ {f} : Abs(f - other) > 1}

\* blocked: some square of the file on a higher rank holds a piece of the
\* other colour
Blocked(board, color, sq) ==
    \E ahead \in (square_rank(sq) + 1)..7 :
        LET front == square(square_file(sq), ahead)
        IN  board.pieces[front] # Empty /\ ~HasColor(board, front, color)

get_pawn_structure(board, color) ==
    LET pawns == pieces(board, "p", color)
        files == PawnFiles(board, color)
    IN  [doubled |-> Cardinality({f \in files :
                        Cardinality({sq \in pawns : square_file(sq) = f}) > 1}),
         isolated |-> Cardinality(IsolatedFiles(files)),
         passed |-> Cardinality({sq \in pawns : ~Blocked(board, color, sq)})]

\* chess.D4, chess.D5, chess.E4, chess.E5
center == {square(3, 3), square(3, 4), square(4, 3), square(4, 4)}

get_center_control(board, color) ==
    Cardinality({sq \in center : is_attacked_by(board, color, sq)})

get_development(board, color) ==
    LET minors == pieces(board, "n", color) \cup pieces(board, "b", color)
    IN  Cardinality({sq \in minors :
            \/ color = WHITE /\ square_rank(sq) > 0
            \/ color = BLACK /\ square_rank(sq) < 7})

\* a pawn of either colour stands on the file
has_pawn(board, file) ==
    \E rank \in 0..7 :
        /\ board.pieces[square(file, rank)] # Empty
        /\ TypeOf[board.pieces[square(file, rank)]] = "p"

\* get_rook_activity looking for pawns of the rook's own colour only
get_rook_activity_own_pawns(board, color) ==
    Cardinality({r \in pieces(board, "r", color) :
        ~\E rank \in 0..7 :
            board.pieces[square(square_file(r), rank)] = Sym("p", color)})

get_rook_activity(board, color) ==
    Cardinality({r \in pieces(board, "r", color) :
                   ~has_pawn(board, square_file(r))})

get_hanging_pieces(board, color) ==
    Cardinality({sq \in piece_map(board) :
        /\ HasColor(board, sq, color)
        /\ ~is_attacked_by(board, color, sq)
        /\ is_attacked_by(board, ~color, sq)})

\* get_piece_activity without the colour test on the moved piece
get_piece_activity_any_side(board, color) == Cardinality(legal_moves(board))

\* get_piece_activity testing the colour on the square the move arrives on
get_piece_activity_to_square(board, color) ==
    Cardinality({move \in legal_moves(board) :
                   HasColor(board, move.to_square, color)})

get_piece_activity(board, color) ==
    Cardinality({move \in legal_moves(board) :
                   HasColor(board, move.from_square, color)})

get_piece_coordination(board, color) ==
    Cardinality({sq \in piece_map(board) :
        HasColor(board, sq, color) /\ is_attacked_by(board, color, sq)})

get_bishop_pair_bonus(board, color) ==
    IF Cardinality(pieces(board, "b", color)) >= 2 THEN 1 ELSE 0

\* get_open_file_control looping over the rooks only
get_open_file_control_rooks_only(board, color) ==
    Cardinality({sq \in pieces(board, "r", color) :
                   ~has_pawn(board, square_file(sq))})

get_open_file_control(board, color) ==
    Cardinality({sq \in pieces(board, "r", color) \cup pieces(board, "q", color) :
                   ~has_pawn(board, square_file(sq))})

\* get_space_advantage counting the squares of the colour's own half
get_space_advantage_own_half(board, color) ==
    LET half_ranks == IF color = WHITE THEN 0..3 ELSE 4..7
    IN  Cardinality({sq \in SQUARES :
            square_rank(sq) \in half_ranks /\ is_attacked_by(board, color, sq)})

get_space_advantage(board, color) ==
    LET half_ranks == IF color = WHITE THEN 4..7 ELSE 0..3
    IN  Cardinality({sq \in SQUARES :
            square_rank(sq) \in half_ranks /\ is_attacked_by(board, color, sq)})

get_weak_squares(board, color) ==
    Cardinality({sq \in center :
        ~is_attacked_by(board, color, sq) /\ board.pieces[sq] = Empty})

\* pairs (knight, square it attacks) with the square free of enemy attack
get_outposts(board, color) ==
    Cardinality(UNION {{<<n, sq>> : sq \in {x \in BB_KNIGHT_ATTACKS(n) :
                                              ~is_attacked_by(board, ~color, x)}} :
                       n \in pieces(board, "n", color)})

get_pinned_pieces(board, color) ==
    Cardinality({sq \in pieces(board, "p", color) \cup pieces(board, "n", color)
                        \cup pieces(board, "b", color) \cup pieces(board, "r", color)
                        \cup pieces(board, "q", color) :
                   is_pinned(board, color, sq)})

\* the loop runs over every piece of the board, of either colour
get_attacked_vs_defended_balance(board, color) ==
    [attacked |-> Cardinality({sq \in piece_map(board) :
                                 is_attacked_by(board, ~color, sq)}),
     defended |-> Cardinality({sq \in piece_map(board) :
                                 is_attacked_by(board, color, sq)})]

get_castling_status(board, color) == has_castling_rights(board, color)

get_king_zone_control(board, color) ==
    LET king_sq == king(board, color)
        zone == BB_KING_ATTACKS(king_sq)
    IN  Cardinality({sq \in zone : is_attacked_by(board, color, sq)})

get_king_zone_control_raises(board, color) == king(board, color) = NoSquare

get_rook_on_7th_rank(board, color) ==
    LET rank == IF color = WHITE THEN 6 ELSE 1
    IN  Cardinality({sq \in pieces(board, "r", color) : square_rank(sq) = rank})

get_connected_rooks(board, color) ==
    LET rooks == pieces(board, "r", color)
    IN  IF /\ Cardinality(rooks) = 2
           /\ \A r \in rooks : is_attacked_by(board, color, r)
        THEN 1 ELSE 0

get_passed_pawn_advancement(board, color) ==
    SumOver({sq \in pieces(board, "p", color) : ~Blocked(board, color, sq)},
            [sq \in SQUARES |-> square_rank(sq)])

\* get_pawn_shield with front_rank = rank + 1 for either colour
get_pawn_shield_white_front(board, color) ==
    LET king_sq == king(board, color)
        rank == square_rank(king_sq)
        file == square_file(king_sq)
        front_rank == rank + 1
        files == {file - 1, file, file + 1}
    IN  Cardinality({f \in files :
            /\ 0 <= f /\ f < 8 /\ 0 <= front_rank /\ front_rank < 8
            /\ board.pieces[square(f, front_rank)] = Sym("p", color)})

\* get_pawn_shield without the bound on the file: chess.square(8, r) is the
\* a-file square one rank up, chess.square(-1, r) the h-file square one rank
\* down
get_pawn_shield_no_file_bound(board, color) ==
    LET king_sq == king(board, color)
        rank == square_rank(king_sq)
        file == square_file(king_sq)
        front_rank == IF color = WHITE THEN rank + 1 ELSE rank - 1
        files == {file - 1, file, file + 1}
    IN  Cardinality({f \in files :
            /\ 0 <= front_rank /\ front_rank < 8
            /\ square(f, front_rank) \in SQUARES
            /\ board.pieces[square(f, front_rank)] = Sym("p", color)})

get_pawn_shield(board, color) ==
    LET king_sq == king(board, color)
        rank == square_rank(king_sq)
        file == square_file(king_sq)
        front_rank == IF color = WHITE THEN rank + 1 ELSE rank - 1
        files == {file - 1, file, file + 1}
    IN  Cardinality({f \in files :
            /\ 0 <= f /\ f < 8 /\ 0 <= front_rank /\ front_rank < 8
            /\ board.pieces[square(f, front_rank)] = Sym("p", color)})

\* chess.square_rank(None) raises TypeError
get_pawn_shield_raises(board, color) == king(board, color) = NoSquare

\* the two supporter squares of a pawn, in list order
supporters(color, p) ==
    LET file == square_file(p)
        rank == square_rank(p)
    IN  IF color = BLACK
        THEN <<square(file - 1, rank + 1), square(file + 1, rank + 1)>>
        ELSE <<square(file - 1, rank - 1), square(file + 1, rank - 1)>>

\* the guard without "or s >= 64"
OffBoard_below_only(s) == s < 0

\* s < 0 or s >= 64: the index is not looked up
OffBoard(s) == s < 0 \/ s >= 64

\* one element of the all(...): this square holds no pawn
NoSupport(board, s) ==
    \/ OffBoard(s)
    \/ piece_at(board, s) = Empty
    \/ TypeOf[piece_at(board, s)] # "p"

get_backward_pawns(board, color) ==
    Cardinality({p \in pieces(board, "p", color) :
        \A i \in 1..2 : NoSupport(board, supporters(color, p)[i])})

\* all(...) stops at its first false element: the second square is looked
\* up only when the first holds no pawn.
get_backward_pawns_raises(board, color) ==
    \E p \in pieces(board, "p", color) :
        LET s == supporters(color, p)
        IN  \/ ~OffBoard(s[1]) /\ PieceAtRaises(s[1])
            \/ /\ OffBoard(s[1]) \/ ~PieceAtRaises(s[1])
               /\ NoSupport(board, s[1])
               /\ ~OffBoard(s[2]) /\ PieceAtRaises(s[2])

get_isolated_weakness_clusters(board, color) ==
    Cardinality(IsolatedFiles(PawnFiles(board, color)))

\* ------------------------------------------------------------------------
\* Feature bundles.  A Python value of a bundle is tagged by what
\* isinstance(value, dict) answers: a dict carries its items (a function from
\* key to value), a leaf carries a number, a label or a boolean.
\* ------------------------------------------------------------------------
L(v) == [kind |-> "leaf", val |-> v]

D(items) == [kind |-> "dict", items |-> items]

EmptyDict == D(<<>>)

Keys(d) == DOMAIN d.items

\* a pair with the black entry left out
Pair_white_only(w, b) == D([white |-> L(w)])

\* {"white": w, "black": b}
Pair(w, b) == D([white |-> L(w), black |-> L(b)])

PawnStructure(r) ==
    D([doubled |-> L(r.doubled), isolated |-> L(r.isolated), passed |-> L(r.passed)])

Balance(r) == D([attacked |-> L(r.attacked), defended |-> L(r.defended)])

extract_all_features(board) ==
    D([material |-> Pair(get_material(board, WHITE), get_material(board, BLACK)),
       mobility |-> L(get_mobility(board)),
       king_safety |-> Pair(get_king_safety(board, WHITE),
                            get_king_safety(board, BLACK)),
       pawn_structure |-> D([white |-> PawnStructure(get_pawn_structure(board, WHITE)),
                             black |-> PawnStructure(get_pawn_structure(board, BLACK))]),
       center_control |-> Pair(get_center_control(board, WHITE),
                               get_center_control(board, BLACK)),
       development |-> Pair(get_development(board, WHITE),
                            get_development(board, BLACK)),
       rook_activity |-> Pair(get_rook_activity(board, WHITE),
                              get_rook_activity(board, BLACK)),
       threats |-> Pair(get_hanging_pieces(board, WHITE),
                        get_hanging_pieces(board, BLACK)),
       piece_activity |-> Pair(get_piece_activity(board, WHITE),
                               get_piece_activity(board, BLACK)),
       piece_coordination |-> Pair(get_piece_coordination(board, WHITE),
                                   get_piece_coordination(board, BLACK)),
       bishop_pair_bonus |-> Pair(get_bishop_pair_bonus(board, WHITE),
                                  get_bishop_pair_bonus(board, BLACK)),
       open_file_control |-> Pair(get_open_file_control(board, WHITE),
                                  get_open_file_control(board, BLACK)),
       space_advantage |-> Pair(get_space_advantage(board, WHITE),
                                get_space_advantage(board, BLACK)),
       weak_squares |-> Pair(get_weak_squares(board, WHITE),
                             get_weak_squares(board, BLACK)),
       outposts |-> Pair(get_outposts(board, WHITE), get_outposts(board, BLACK)),
       pinned_pieces |-> Pair(get_pinned_pieces(board, WHITE),
                              get_pinned_pieces(board, BLACK)),
       attacked_vs_defended |->
           D([white |-> Balance(get_attacked_vs_defended_balance(board, WHITE)),
              black |-> Balance(get_attacked_vs_defended_balance(board, BLACK))]),
       castling_status |-> Pair(get_castling_status(board, WHITE),
                                get_castling_status(board, BLACK)),
       king_zone_control |-> Pair(get_king_zone_control(board, WHITE),
                                  get_king_zone_control(board, BLACK)),
       rook_on_7th_rank |-> Pair(get_rook_on_7th_rank(board, WHITE),
                                 get_rook_on_7th_rank(board, BLACK)),
       connected_rooks |-> Pair(get_connected_rooks(board, WHITE),
                                get_connected_rooks(board, BLACK)),
       passed_pawn_advancement |-> Pair(get_passed_pawn_advancement(board, WHITE),
                                        get_passed_pawn_advancement(board, BLACK)),
       pawn_shield |-> Pair(get_pawn_shield(board, WHITE),
                            get_pawn_shield(board, BLACK)),
       backward_pawns |-> Pair(get_backward_pawns(board, WHITE),
                               get_backward_pawns(board, BLACK)),
       isolated_weakness_clusters |->
           Pair(get_isolated_weakness_clusters(board, WHITE),
                get_isolated_weakness_clusters(board, BLACK))])

\* The exception the dict display raises, "" when it raises none.  Its
\* entries are evaluated in order, white before black: king_safety is the
\* first that needs a king, backward_pawns the only one that indexes the
\* board by a computed square.
extract_all_raises(board) ==
    IF \E color \in {WHITE, BLACK} :
          \/ get_king_safety_raises(board, color)
          \/ get_king_zone_control_raises(board, color)
          \/ get_pawn_shield_raises(board, color)
    THEN "TypeError"
    ELSE IF \E color \in {WHITE, BLACK} : get_backward_pawns_raises(board, color)
         THEN "IndexError"
         ELSE ""

RECURSIVE compare_features(_, _)

\* compare_features without "if sub_diff": a nested record is reported
\* even when its own diff is empty.
compare_features_keeps_empty(f1, f2) ==
    LET sub_diff(key) == compare_features(f1.items[key], f2.items[key])
        reported == {key \in Keys(f2) :
            \/ key \notin Keys(f1)
            \/ f2.items[key].kind = "dict"
            \/ f1.items[key] # f2.items[key]}
    IN  D([key \in reported |->
             IF key \notin Keys(f1) THEN f2.items[key]
             ELSE IF f2.items[key].kind = "dict" THEN sub_diff(key)
             ELSE f2.items[key]])

\* compare_features with a second loop over f1: the keys f2 lacks are
\* reported too.
compare_features_both_sides(f1, f2) ==
    LET sub_diff(key) == compare_features(f1.items[key], f2.items[key])
        reported == {key \in Keys(f2) :
            \/ key \notin Keys(f1)
            \/ IF f2.items[key].kind = "dict"
               THEN Keys(sub_diff(key)) # {}
               ELSE f1.items[key] # f2.items[key]}
    IN  D([key \in reported \cup (Keys(f1) \ Keys(f2)) |->
             IF key \notin Keys(f2) THEN f1.items[key]
             ELSE IF key \notin Keys(f1) THEN f2.items[key]
             ELSE IF f2.items[key].kind = "dict" THEN sub_diff(key)
             ELSE f2.items[key]])

\* compare_features with "changes[key] = val1": a changed leaf is reported
\* with the value it had before.
compare_features_old_value(f1, f2) ==
    LET sub_diff(key) == compare_features(f1.items[key], f2.items[key])
        reported == {key \in Keys(f2) :
            \/ key \notin Keys(f1)
            \/ IF f2.items[key].kind = "dict"
               THEN Keys(sub_diff(key)) # {}
               ELSE f1.items[key] # f2.items[key]}
    IN  D([key \in reported |->
             IF key \notin Keys(f1) THEN f2.items[key]
             ELSE IF f2.items[key].kind = "dict" THEN sub_diff(key)
             ELSE f1.items[key]])

\* compare_features(f1, f2): the keys of f2 that f1 lacks, verbatim; the
\* nested records whose own diff is not empty; the leaves that differ.
compare_features(f1, f2) ==
    LET sub_diff(key) == compare_features(f1.items[key], f2.items[key])
        reported == {key \in Keys(f2) :
            \/ key \notin Keys(f1)
            \/ IF f2.items[key].kind = "dict"
               THEN Keys(sub_diff(key)) # {}
               ELSE f1.items[key] # f2.items[key]}
    IN  D([key \in reported |->
             IF key \notin Keys(f1) THEN f2.items[key]
             ELSE IF f2.items[key].kind = "dict" THEN sub_diff(key)
             ELSE f2.items[key]])

\* ------------------------------------------------------------------------
\* compare_features on the objects it is handed.  A dict is an object of the
\* heap, a sequence of objects indexed by identity; an object maps its keys
\* to cells, a cell being a leaf value or a reference, the identity of a
\* nested dict.  diff[key] = cell is heap EXCEPT ![diff] = (key :> cell) @@ @.
\* ------------------------------------------------------------------------
\* the dict d built on the heap, nested dicts first: the new heap and the
\* identity of d's object
RECURSIVE Store(_, _)
RECURSIVE StoreItems(_, _, _, _)
StoreItems(heap, d, keys, items) ==
    IF keys = {} THEN [heap |-> heap, items |-> items]
    ELSE LET key == CHOOSE k \in keys : TRUE
             v == d.items[key]
             s == Store(heap, v)
         IN  IF v.kind = "dict"
             THEN StoreItems(s.heap, d, keys \ {key}, (key :> [kind |-> "ref", id |-> s.id]) @@ items)
             ELSE StoreItems(heap, d, keys \ {key}, (key :> v) @@ items)

Store(heap, d) ==
    LET r == StoreItems(heap, d, Keys(d), <<>>)
    IN  [heap |-> Append(r.heap, r.items), id |-> Len(r.heap) + 1]

\* the dict value the object id holds
RECURSIVE Load(_, _)
Load(heap, id) ==
    D([key \in DOMAIN heap[id] |->
         IF heap[id][key].kind = "ref" THEN Load(heap, heap[id][key].id)
         ELSE heap[id][key]])

RECURSIVE compare_features_on_heap(_, _, _)
RECURSIVE compare_loop(_, _, _, _, _)

\* the loop body with "f1[key] = val2" after a changed leaf is reported
compare_key_updates_f1(heap, diff, f1, f2, key) ==
    IF key \notin DOMAIN heap[f1]
    THEN [heap EXCEPT ![diff] = (key :> heap[f2][key]) @@ @]
    ELSE LET val1 == heap[f1][key]
             val2 == heap[f2][key]
             sub == compare_features_on_heap(heap, val1.id, val2.id)
         IN  IF val2.kind = "ref"
             THEN IF DOMAIN sub.heap[sub.id] # {}
                  THEN [sub.heap EXCEPT
                          ![diff] = (key :> [kind |-> "ref", id |-> sub.id]) @@ @]
                  ELSE sub.heap
             ELSE IF val1 # val2
                  THEN [heap EXCEPT ![diff] = (key :> val2) @@ @,
                                    ![f1] = (key :> val2) @@ @]
                  ELSE heap

\* one pass of "for key in f2": the heap after it
compare_key(heap, diff, f1, f2, key) ==
    IF key \notin DOMAIN heap[f1]
    THEN [heap EXCEPT ![diff] = (key :> heap[f2][key]) @@ @]
    ELSE LET val1 == heap[f1][key]
             val2 == heap[f2][key]
             sub == compare_features_on_heap(heap, val1.id, val2.id)
         IN  IF val2.kind = "ref"
             THEN IF DOMAIN sub.heap[sub.id] # {}
                  THEN [sub.heap EXCEPT
                          ![diff] = (key :> [kind |-> "ref", id |-> sub.id]) @@ @]
                  ELSE sub.heap
             ELSE IF val1 # val2
                  THEN [heap EXCEPT ![diff] = (key :> val2) @@ @]
                  ELSE heap

compare_loop(heap, diff, f1, f2, keys) ==
    IF keys = {} THEN heap
    ELSE LET key == CHOOSE k \in keys : TRUE
         IN  compare_loop(compare_key(heap, diff, f1, f2, key), diff, f1, f2,
                          keys \ {key})

\* compare_features(f1, f2) on object identities: diff = {} is a new object,
\* the loop fills it, its identity is returned
compare_features_on_heap(heap, f1, f2) ==
    LET diff == Len(heap) + 1
    IN  [heap |-> compare_loop(Append(heap, <<>>), diff, f1, f2, DOMAIN heap[f2]),
         id |-> diff]

\* a call with the values f1 and f2: the heap holding them before the call,
\* the heap after it, and the identities of f1, f2 and the returned dict
compare_run(f1, f2) ==
    LET s1 == Store(<<>>, f1)
        s2 == Store(s1.heap, f2)
        r == compare_features_on_heap(s2.heap, s1.id, s2.id)
    IN  [before |-> s2.heap, heap |-> r.heap, f1 |-> s1.id, f2 |-> s2.id,
         diff |-> r.id]

\* What a call returns or raises.
Ok(v) == [status |-> "ok", exc |-> "", value |-> v]

Raise(e) == [status |-> "raise", exc |-> e, value |-> EmptyDict]

\* prev=None
None == [placement |-> <<>>, turn |-> "", castling |-> {}, ep |-> NoSquare]

\* extract_features without the "if prev" branch
extract_features_ignores_prev(curr, prev) ==
    LET board2 == Board(curr)
    IN  IF FenRaises(curr) THEN Raise("ValueError")
        ELSE IF extract_all_raises(board2) # "" THEN Raise(extract_all_raises(board2))
        ELSE Ok(extract_all_features(board2))

extract_features(curr, prev) ==
    LET board2 == Board(curr)
        board1 == Board(prev)
    IN  IF FenRaises(curr) THEN Raise("ValueError")
        ELSE IF extract_all_raises(board2) # ""
        THEN Raise(extract_all_raises(board2))
        ELSE IF prev # None
        THEN IF FenRaises(prev) THEN Raise("ValueError")
             ELSE IF extract_all_raises(board1) # ""
             THEN Raise(extract_all_raises(board1))
             ELSE Ok(compare_features(extract_all_features(board1),
                                      extract_all_features(board2)))
        ELSE Ok(extract_all_features(board2))

\* ------------------------------------------------------------------------
\* The feature script (src/backend/features.py): the same feature functions
\* written at module level, and the statements that run when the script is
\* run: the board is built from the script's fen and the functions fill the
\* dict features.
\* ------------------------------------------------------------------------
\* The module-level feature functions (lines 20-381) and the dict display
\* features = {...} (lines 386-478) that calls them on the board b.
script_features(b) ==
    LET script_piece_values == [p |-> 1, n |-> 3, b |-> 3, r |-> 5, q |-> 9, k |-> 0]

        \* script_get_material returns the pair (white, black); here one colour's part.
        script_get_material(board, color) ==
            SumOver({sq \in SQUARES : board.pieces[sq] \in SymbolsOf(color)},
                    [sq \in SQUARES |-> script_piece_values[TypeOf[board.pieces[sq]]]])

        script_get_mobility(board) == Cardinality(legal_moves(board))

        script_get_king_safety(board, color) ==
            LET king_sq == king(board, color)
                castled == has_castling_rights(board, color) = FALSE
                unsafe == Cardinality({sq \in BB_KING_ATTACKS(king_sq) :
                                         is_attacked_by(board, ~color, sq)})
            IN  IF unsafe <= 2 /\ castled THEN "Safe" ELSE "Exposed"

        \* the files of the colour's pawns, set(files)
        script_PawnFiles(board, color) == {square_file(sq) : sq \in pieces(board, "p", color)}

        script_IsolatedFiles(files) ==
            {f \in files : \A other \in files \ {f} : Abs(f - other) > 1}

        \* blocked: some square of the file on a higher rank holds a piece of the
        \* other colour
        script_Blocked(board, color, sq) ==
            \E ahead \in (square_rank(sq) + 1)..7 :
                LET front == square(square_file(sq), ahead)
                IN  board.pieces[front] # Empty /\ ~HasColor(board, front, color)

        script_get_pawn_structure(board, color) ==
            LET pawns == pieces(board, "p", color)
                files == script_PawnFiles(board, color)
            IN  [doubled |-> Cardinality({f \in files :
                                Cardinality({sq \in pawns : square_file(sq) = f}) > 1}),
                 isolated |-> Cardinality(script_IsolatedFiles(files)),
                 passed |-> Cardinality({sq \in pawns : ~script_Blocked(board, color, sq)})]

        script_get_center_control(board, color) ==
            Cardinality({sq \in center : is_attacked_by(board, color, sq)})

        script_get_development(board, color) ==
            LET minors == pieces(board, "n", color) \cup pieces(board, "b", color)
            IN  Cardinality({sq \in minors :
                    \/ color = WHITE /\ square_rank(sq) > 0
                    \/ color = BLACK /\ square_rank(sq) < 7})

        \* a pawn of either colour stands on the file
        script_has_pawn(board, file) ==
            \E rank \in 0..7 :
                /\ board.pieces[square(file, rank)] # Empty
                /\ TypeOf[board.pieces[square(file, rank)]] = "p"

        script_get_rook_activity(board, color) ==
            Cardinality({r \in pieces(board, "r", color) :
                           ~script_has_pawn(board, square_file(r))})

        script_get_hanging_pieces(board, color) ==
            Cardinality({sq \in piece_map(board) :
                /\ HasColor(board, sq, color)
                /\ ~is_attacked_by(board, color, sq)
                /\ is_attacked_by(board, ~color, sq)})

        script_get_piece_activity(board, color) ==
            Cardinality({move \in legal_moves(board) :
                           HasColor(board, move.from_square, color)})

        script_get_piece_coordination(board, color) ==
            Cardinality({sq \in piece_map(board) :
                HasColor(board, sq, color) /\ is_attacked_by(board, color, sq)})

        script_get_bishop_pair_bonus(board, color) ==
            IF Cardinality(pieces(board, "b", color)) >= 2 THEN 1 ELSE 0

        script_get_open_file_control(board, color) ==
            Cardinality({sq \in pieces(board, "r", color) \cup pieces(board, "q", color) :
                           ~script_has_pawn(board, square_file(sq))})

        script_get_space_advantage(board, color) ==
            LET half_ranks == IF color = WHITE THEN 4..7 ELSE 0..3
            IN  Cardinality({sq \in SQUARES :
                    square_rank(sq) \in half_ranks /\ is_attacked_by(board, color, sq)})

        script_get_weak_squares(board, color) ==
            Cardinality({sq \in center :
                ~is_attacked_by(board, color, sq) /\ board.pieces[sq] = Empty})

        \* pairs (knight, square it attacks) with the square free of enemy attack
        script_get_outposts(board, color) ==
            Cardinality(UNION {{<<n, sq>> : sq \in {x \in BB_KNIGHT_ATTACKS(n) :
                                                      ~is_attacked_by(board, ~color, x)}} :
                               n \in pieces(board, "n", color)})

        script_get_pinned_pieces(board, color) ==
            Cardinality({sq \in pieces(board, "p", color) \cup pieces(board, "n", color)
                                \cup pieces(board, "b", color) \cup pieces(board, "r", color)
                                \cup pieces(board, "q", color) :
                           is_pinned(board, color, sq)})

        \* the loop runs over every piece of the board, of either colour
        script_get_attacked_vs_defended_balance(board, color) ==
            [attacked |-> Cardinality({sq \in piece_map(board) :
                                         is_attacked_by(board, ~color, sq)}),
             defended |-> Cardinality({sq \in piece_map(board) :
                                         is_attacked_by(board, color, sq)})]

        script_get_castling_status(board, color) == has_castling_rights(board, color)

        script_get_king_zone_control(board, color) ==
            LET king_sq == king(board, color)
                zone == BB_KING_ATTACKS(king_sq)
            IN  Cardinality({sq \in zone : is_attacked_by(board, color, sq)})

        script_get_rook_on_7th_rank(board, color) ==
            LET rank == IF color = WHITE THEN 6 ELSE 1
            IN  Cardinality({sq \in pieces(board, "r", color) : square_rank(sq) = rank})

        script_get_connected_rooks(board, color) ==
            LET rooks == pieces(board, "r", color)
            IN  IF /\ Cardinality(rooks) = 2
                   /\ \A r \in rooks : is_attacked_by(board, color, r)
                THEN 1 ELSE 0

        script_get_passed_pawn_advancement(board, color) ==
            SumOver({sq \in pieces(board, "p", color) : ~script_Blocked(board, color, sq)},
                    [sq \in SQUARES |-> square_rank(sq)])

        script_get_pawn_shield(board, color) ==
            LET king_sq == king(board, color)
                rank == square_rank(king_sq)
                file == square_file(king_sq)
                front_rank == IF color = WHITE THEN rank + 1 ELSE rank - 1
                files == {file - 1, file, file + 1}
            IN  Cardinality({f \in files :
                    /\ 0 <= f /\ f < 8 /\ 0 <= front_rank /\ front_rank < 8
                    /\ board.pieces[square(f, front_rank)] = Sym("p", color)})

        \* the two supporter squares of a pawn, in list order
        script_supporters(color, p) ==
            LET file == square_file(p)
                rank == square_rank(p)
            IN  IF color = BLACK
                THEN <<square(file - 1, rank + 1), square(file + 1, rank + 1)>>
                ELSE <<square(file - 1, rank - 1), square(file + 1, rank - 1)>>

        \* s < 0 or s >= 64: the index is not looked up
        script_OffBoard(s) == s < 0 \/ s >= 64

        \* one element of the all(...): this square holds no pawn
        script_NoSupport(board, s) ==
            \/ script_OffBoard(s)
            \/ piece_at(board, s) = Empty
            \/ TypeOf[piece_at(board, s)] # "p"

        script_get_backward_pawns(board, color) ==
            Cardinality({p \in pieces(board, "p", color) :
                \A i \in 1..2 : script_NoSupport(board, script_supporters(color, p)[i])})

        script_get_isolated_weakness_clusters(board, color) ==
            Cardinality(script_IsolatedFiles(script_PawnFiles(board, color)))
    IN
    D([material |-> Pair(script_get_material(b, WHITE), script_get_material(b, BLACK)),
       mobility |-> L(script_get_mobility(b)),
       king_safety |-> Pair(script_get_king_safety(b, WHITE),
                            script_get_king_safety(b, BLACK)),
       pawn_structure |-> D([white |-> PawnStructure(script_get_pawn_structure(b, WHITE)),
                             black |-> PawnStructure(script_get_pawn_structure(b, BLACK))]),
       center_control |-> Pair(script_get_center_control(b, WHITE),
                               script_get_center_control(b, BLACK)),
       development |-> Pair(script_get_development(b, WHITE),
                            script_get_development(b, BLACK)),
       rook_activity |-> Pair(script_get_rook_activity(b, WHITE),
                              script_get_rook_activity(b, BLACK)),
       threats |-> Pair(script_get_hanging_pieces(b, WHITE),
                        script_get_hanging_pieces(b, BLACK)),
       piece_activity |-> Pair(script_get_piece_activity(b, WHITE),
                               script_get_piece_activity(b, BLACK)),
       piece_coordination |-> Pair(script_get_piece_coordination(b, WHITE),
                                   script_get_piece_coordination(b, BLACK)),
       bishop_pair_bonus |-> Pair(script_get_bishop_pair_bonus(b, WHITE),
                                  script_get_bishop_pair_bonus(b, BLACK)),
       open_file_control |-> Pair(script_get_open_file_control(b, WHITE),
                                  script_get_open_file_control(b, BLACK)),
       space_advantage |-> Pair(script_get_space_advantage(b, WHITE),
                                script_get_space_advantage(b, BLACK)),
       weak_squares |-> Pair(script_get_weak_squares(b, WHITE),
                             script_get_weak_squares(b, BLACK)),
       outposts |-> Pair(script_get_outposts(b, WHITE), script_get_outposts(b, BLACK)),
       pinned_pieces |-> Pair(script_get_pinned_pieces(b, WHITE),
                              script_get_pinned_pieces(b, BLACK)),
       attacked_vs_defended |->
           D([white |-> Balance(script_get_attacked_vs_defended_balance(b, WHITE)),
              black |-> Balance(script_get_attacked_vs_defended_balance(b, BLACK))]),
       castling_status |-> Pair(script_get_castling_status(b, WHITE),
                                script_get_castling_status(b, BLACK)),
       king_zone_control |-> Pair(script_get_king_zone_control(b, WHITE),
                                  script_get_king_zone_control(b, BLACK)),
       rook_on_7th_rank |-> Pair(script_get_rook_on_7th_rank(b, WHITE),
                                 script_get_rook_on_7th_rank(b, BLACK)),
       connected_rooks |-> Pair(script_get_connected_rooks(b, WHITE),
                                script_get_connected_rooks(b, BLACK)),
       passed_pawn_advancement |-> Pair(script_get_passed_pawn_advancement(b, WHITE),
                                        script_get_passed_pawn_advancement(b, BLACK)),
       pawn_shield |-> Pair(script_get_pawn_shield(b, WHITE),
                            script_get_pawn_shield(b, BLACK)),
       backward_pawns |-> Pair(script_get_backward_pawns(b, WHITE),
                               script_get_backward_pawns(b, BLACK)),
       isolated_weakness_clusters |->
           Pair(script_get_isolated_weakness_clusters(b, WHITE),
                script_get_isolated_weakness_clusters(b, BLACK))])

\* The exception the script stops with, "" when it stops with none.  The two
\* get_king_safety calls come before the dict display, white before black;
\* get_backward_pawns is the only entry that indexes the board by a computed
\* square.
script_raises(b) ==
    LET \* BB_KING_ATTACKS[None] raises TypeError
        script_get_king_safety_raises(board, color) == king(board, color) = NoSquare

        script_get_king_zone_control_raises(board, color) == king(board, color) = NoSquare

        \* chess.square_rank(None) raises TypeError
        script_get_pawn_shield_raises(board, color) == king(board, color) = NoSquare

        \* the two supporter squares of a pawn, in list order
        script_supporters(color, p) ==
            LET file == square_file(p)
                rank == square_rank(p)
            IN  IF color = BLACK
                THEN <<square(file - 1, rank + 1), square(file + 1, rank + 1)>>
                ELSE <<square(file - 1, rank - 1), square(file + 1, rank - 1)>>

        \* s < 0 or s >= 64: the index is not looked up
        script_OffBoard(s) == s < 0 \/ s >= 64

        \* one element of the all(...): this square holds no pawn
        script_NoSupport(board, s) ==
            \/ script_OffBoard(s)
            \/ piece_at(board, s) = Empty
            \/ TypeOf[piece_at(board, s)] # "p"

        \* all(...) stops at its first false element: the second square is looked
        \* up only when the first holds no pawn.
        script_get_backward_pawns_raises(board, color) ==
            \E p \in pieces(board, "p", color) :
                LET s == script_supporters(color, p)
                IN  \/ ~script_OffBoard(s[1]) /\ PieceAtRaises(s[1])
                    \/ /\ script_OffBoard(s[1]) \/ ~PieceAtRaises(s[1])
                       /\ script_NoSupport(board, s[1])
                       /\ ~script_OffBoard(s[2]) /\ PieceAtRaises(s[2])
    IN
    IF \E color \in {WHITE, BLACK} :
          \/ script_get_king_safety_raises(b, color)
          \/ script_get_king_zone_control_raises(b, color)
          \/ script_get_pawn_shield_raises(b, color)
    THEN "TypeError"
    ELSE IF \E color \in {WHITE, BLACK} : script_get_backward_pawns_raises(b, color)
         THEN "IndexError"
         ELSE ""

\* the script run with its fen line set to f: what features holds at the
\* end, or the exception it stops with
script_run(f) ==
    LET board == Board(f)
    IN  IF FenRaises(f) THEN Raise("ValueError")
        ELSE IF script_raises(board) # "" THEN Raise(script_raises(board))
        ELSE Ok(script_features(board))

\* ------------------------------------------------------------------------
\* The callers.  extract_features is handed board strings: positions set up
\* from a list (the example usage, features.py:316-325, passes two literals)
\* and the positions a game reaches from them, written back as board
\* strings.
\* ------------------------------------------------------------------------
\* rnbqkbnr/pppppppp/8/8/8/8/PPPPPPPP/RNBQKBNR w KQkq - 0 1: the standard starting position
StartFen ==
    [placement |-> <<
        <<"r", "n", "b", "q", "k", "b", "n", "r">>,
        <<"p", "p", "p", "p", "p", "p", "p", "p">>,
        <<"8">>,
        <<"8">>,
        <<"8">>,
        <<"8">>,
        <<"P", "P", "P", "P", "P", "P", "P", "P">>,
        <<"R", "N", "B", "Q", "K", "B", "N", "R">>>>,
     turn |-> "w", castling |-> {"K", "Q", "k", "q"}, ep |-> NoSquare]

\* rnbqkbnr/pppppppp/8/8/4P3/5N2/PPPP1PPP/RNBQKB1R b KQkq - 1 1: curr_fen of the example usage (features.py:319)
ExampleFen ==
    [placement |-> <<
        <<"r", "n", "b", "q", "k", "b", "n", "r">>,
        <<"p", "p", "p", "p", "p", "p", "p", "p">>,
        <<"8">>,
        <<"8">>,
        <<"4", "P", "3">>,
        <<"5", "N", "2">>,
        <<"P", "P", "P", "P", "1", "P", "P", "P">>,
        <<"R", "N", "B", "Q", "K", "B", "1", "R">>>>,
     turn |-> "b", castling |-> {"K", "Q", "k", "q"}, ep |-> NoSquare]

\* R5k1/5ppp/8/8/8/8/8/6K1 b - - 0 1: black is checkmated on the back rank
MateFen ==
    [placement |-> <<
        <<"R", "5", "k", "1">>,
        <<"5", "p", "p", "p">>,
        <<"8">>,
        <<"8">>,
        <<"8">>,
        <<"8">>,
        <<"8">>,
        <<"6", "K", "1">>>>,
     turn |-> "b", castling |-> {}, ep |-> NoSquare]

\* 7k/5Q2/6K1/8/8/8/8/8 b - - 0 1: black is stalemated
StalemateFen ==
    [placement |-> <<
        <<"7", "k">>,
        <<"5", "Q", "2">>,
        <<"6", "K", "1">>,
        <<"8">>,
        <<"8">>,
        <<"8">>,
        <<"8">>,
        <<"8">>>>,
     turn |-> "b", castling |-> {}, ep |-> NoSquare]

\* k7/p6p/8/7p/P7/8/7P/7K w - - 0 1: kings in the corners, pawns on the edge files
EdgeFen ==
    [placement |-> <<
        <<"k", "7">>,
        <<"p", "6", "p">>,
        <<"8">>,
        <<"7", "p">>,
        <<"P", "7">>,
        <<"8">>,
        <<"7", "P">>,
        <<"7", "K">>>>,
     turn |-> "w", castling |-> {}, ep |-> NoSquare]

\* 4K3/8/8/8/8/8/6pp/R3k3 b - - 0 1: each king on its last rank, black pawns one step from promotion
LastRankFen ==
    [placement |-> <<
        <<"4", "K", "3">>,
        <<"8">>,
        <<"8">>,
        <<"8">>,
        <<"8">>,
        <<"8">>,
        <<"6", "p", "p">>,
        <<"R", "3", "k", "3">>>>,
     turn |-> "b", castling |-> {}, ep |-> NoSquare]

\* r3k2r/1pp2pp1/8/8/8/8/1PP2PP1/R2QK2R w KQkq - 0 1: rooks and a queen on pawnless files, castling rights held
RookFen ==
    [placement |-> <<
        <<"r", "3", "k", "2", "r">>,
        <<"1", "p", "p", "2", "p", "p", "1">>,
        <<"8">>,
        <<"8">>,
        <<"8">>,
        <<"8">>,
        <<"1", "P", "P", "2", "P", "P", "1">>,
        <<"R", "2", "Q", "K", "2", "R">>>>,
     turn |-> "w", castling |-> {"K", "Q", "k", "q"}, ep |-> NoSquare]

\* 4r1k1/8/8/8/8/8/4N3/4K3 w - - 0 1: a rook pins a knight to the king along a file
PinFen ==
    [placement |-> <<
        <<"4", "r", "1", "k", "1">>,
        <<"8">>,
        <<"8">>,
        <<"8">>,
        <<"8">>,
        <<"8">>,
        <<"4", "N", "3">>,
        <<"4", "K", "3">>>>,
     turn |-> "w", castling |-> {}, ep |-> NoSquare]

\* 8/8/8/8/8/8/8/4K3 w - - 0 1: no black king
NoBlackKingFen ==
    [placement |-> <<
        <<"8">>,
        <<"8">>,
        <<"8">>,
        <<"8">>,
        <<"8">>,
        <<"8">>,
        <<"8">>,
        <<"4", "K", "3">>>>,
     turn |-> "w", castling |-> {}, ep |-> NoSquare]

\* 4k3/8/8/8/8/8/8/K3K3 w - - 0 1: two white kings
TwoWhiteKingsFen ==
    [placement |-> <<
        <<"4", "k", "3">>,
        <<"8">>,
        <<"8">>,
        <<"8">>,
        <<"8">>,
        <<"8">>,
        <<"8">>,
        <<"K", "3", "K", "3">>>>,
     turn |-> "w", castling |-> {}, ep |-> NoSquare]

\* rnbqkbnr/ppppppppp/8/8/8/8/PPPPPPPP/RNBQKBNR w KQkq - 0 1: a row of nine squares
NineSquaresFen ==
    [placement |-> <<
        <<"r", "n", "b", "q", "k", "b", "n", "r">>,
        <<"p", "p", "p", "p", "p", "p", "p", "p", "p">>,
        <<"8">>,
        <<"8">>,
        <<"8">>,
        <<"8">>,
        <<"P", "P", "P", "P", "P", "P", "P", "P">>,
        <<"R", "N", "B", "Q", "K", "B", "N", "R">>>>,
     turn |-> "w", castling |-> {"K", "Q", "k", "q"}, ep |-> NoSquare]

\* p3k3/8/8/8/8/8/8/4K3 w - - 0 1: a black pawn on the eighth rank, whose
\* supporter squares have the indices 63 and 65
BackRankPawnFen ==
    [placement |-> <<
        <<"p", "3", "k", "3">>,
        <<"8">>,
        <<"8">>,
        <<"8">>,
        <<"8">>,
        <<"8">>,
        <<"8">>,
        <<"4", "K", "3">>>>,
     turn |-> "w", castling |-> {}, ep |-> NoSquare]

\* 7R/6B1/8/2k5/8/8/1K6/R7 w - - 0 1: two white rooks in opposite corners, one
\* defended by the king and one by the bishop
DefendedRooksFen ==
    [placement |-> <<
        <<"7", "R">>,
        <<"6", "B", "1">>,
        <<"8">>,
        <<"2", "k", "5">>,
        <<"8">>,
        <<"8">>,
        <<"1", "K", "6">>,
        <<"R", "7">>>>,
     turn |-> "w", castling |-> {}, ep |-> NoSquare]

\* k7/7p/8/8/8/P7/6PP/7K w - - 0 1: a king on the h-file with two pawns in
\* front of it and a pawn of its colour on a3
CornerShieldFen ==
    [placement |-> <<
        <<"k", "7">>,
        <<"7", "p">>,
        <<"8">>,
        <<"8">>,
        <<"8">>,
        <<"P", "7">>,
        <<"6", "P", "P">>,
        <<"7", "K">>>>,
     turn |-> "w", castling |-> {}, ep |-> NoSquare]

\* rnbqkbnr/pppppppp/8/8/4P3/8/PPPP1PPP/RNBQKBNR b KQkq - 0 1: the fen line of
\* the feature script (backend/features.py:16)
ScriptFen ==
    [placement |-> <<
        <<"r", "n", "b", "q", "k", "b", "n", "r">>,
        <<"p", "p", "p", "p", "p", "p", "p", "p">>,
        <<"8">>,
        <<"8">>,
        <<"4", "P", "3">>,
        <<"8">>,
        <<"P", "P", "P", "P", "1", "P", "P", "P">>,
        <<"R", "N", "B", "Q", "K", "B", "N", "R">>>>,
     turn |-> "b", castling |-> {"K", "Q", "k", "q"}, ep |-> NoSquare]

Catalog ==
    {StartFen, ExampleFen, ScriptFen, MateFen, StalemateFen, EdgeFen, LastRankFen, RookFen,
     PinFen, BackRankPawnFen, DefendedRooksFen, CornerShieldFen,
     NoBlackKingFen, TwoWhiteKingsFen, NineSquaresFen}

DigitStr == <<"1", "2", "3", "4", "5", "6", "7", "8">>

Run(n) == IF n > 0 THEN <<DigitStr[n]>> ELSE <<>>

\* One row of the placement field: runs of empty squares become digits.
RECURSIVE EncodeRow(_, _, _, _)
EncodeRow(ps, r, f, run) ==
    IF f = 8 THEN Run(run)
    ELSE IF ps[square(f, r)] = Empty THEN EncodeRow(ps, r, f + 1, run + 1)
    ELSE Run(run) \o <<ps[square(f, r)]>> \o EncodeRow(ps, r, f + 1, 0)

\* The castling flags a move takes away: both of a king that moves, the one
\* of a corner a rook leaves or is captured on.
LostFlags(ps, m) ==
    LET corner(sq) == CASE sq = square(0, 0) -> {"Q"}
                        [] sq = square(7, 0) -> {"K"}
                        [] sq = square(0, 7) -> {"q"}
                        [] sq = square(7, 7) -> {"k"}
                        [] OTHER -> {}
    IN  (CASE ps[m.from_square] = "K" -> {"K", "Q"}
           [] ps[m.from_square] = "k" -> {"k", "q"}
           [] OTHER -> {})
        \cup corner(m.from_square) \cup corner(m.to_square)

\* The board string of the position after move m.
FenAfter(fen, m) ==
    LET board == Position(fen)
        ps == Moved(board.pieces, m)
        f == square_file(m.to_square)
        r == square_rank(m.to_square)
        double == /\ TypeOf[board.pieces[m.from_square]] = "p"
                  /\ Abs(r - square_rank(m.from_square)) = 2
        \* the skipped square is written when a pawn stands ready to take
        capturer == \E df \in {-1, 1} :
                       /\ OnBoard(f + df, r)
                       /\ ps[square(f + df, r)] = Sym("p", ~board.turn)
    IN  [placement |-> [i \in 1..8 |-> EncodeRow(ps, 8 - i, 0, 0)],
         turn |-> IF board.turn THEN "b" ELSE "w",
         castling |-> fen.castling \ LostFlags(board.pieces, m),
         ep |-> IF double /\ capturer
                THEN square(f, (r + square_rank(m.from_square)) \div 2)
                ELSE NoSquare]

\* The board string with a pawn of the colour put on the empty square sq.
FenWithPawn(fen, sq, color) ==
    LET ps == [Position(fen).pieces EXCEPT ![sq] = Sym("p", color)]
    IN  [fen EXCEPT !.placement = [i \in 1..8 |-> EncodeRow(ps, 8 - i, 0, 0)]]

\* Moves are listed by origin square, then destination, then promotion.
MoveKey(m) ==
    (m.from_square * 64 + m.to_square) * 5
    + (CASE m.promotion = "q" -> 1 [] m.promotion = "r" -> 2
         [] m.promotion = "b" -> 3 [] m.promotion = "n" -> 4 [] OTHER -> 0)

FirstMoves(moves, n) ==
    {m \in moves : Cardinality({x \in moves : MoveKey(x) < MoveKey(m)}) < n}

\* How many plies the game is followed, and how many moves of a position.
MaxPly == 1

MaxMoves == 4

\* ------------------------------------------------------------------------
\* Bundles for the differ on its own: three keys of the bundle, one scalar,
\* one pair and one nested pair, every key optional at every level so that a
\* key may be in one bundle and missing from the other.
\* ------------------------------------------------------------------------
MaxVal == 1

Leaves == {L(v) : v \in 0..MaxVal}

\* the dicts over some of the keys, the value of key k drawn from vals[k]
DictsOver(vals) ==
    UNION {{D(f) : f \in {g \in [S -> UNION {vals[k] : k \in DOMAIN vals}] :
                              \A k \in S : g[k] \in vals[k]}} :
           S \in SUBSET DOMAIN vals}

SideDicts == DictsOver([white |-> Leaves, black |-> Leaves])

PawnDicts == DictsOver([passed |-> Leaves])

NestedDicts == DictsOver([white |-> PawnDicts])

Bundles ==
    DictsOver([mobility |-> Leaves, material |-> SideDicts,
               pawn_structure |-> NestedDicts])

\* ------------------------------------------------------------------------
\* The vector extractor (ChessFeatureExtractor, src/backend/feature_vectors.py).
\* Scores are written in hundredths and move features in thousandths.
\* ------------------------------------------------------------------------

\* stockfish_path: None, a path with no engine behind it, a path of an engine
NoPath == "None"

BadPath == "no-such-file"

GoodPath == "stockfish"

Paths == {NoPath, BadPath, GoodPath}

\* SimpleEngine.popen_uci(stockfish_path) raises
popen_uci_raises(path) == path # GoodPath

\* self.engine after __init__: the exception of popen_uci is caught and the
\* engine stays None
init_engine(path) ==
    IF path # NoPath /\ ~popen_uci_raises(path) THEN "running" ELSE "None"

piece_to_idx == [p |-> 0, n |-> 1, b |-> 2, r |-> 3, q |-> 4, k |-> 5]

\* the entries of the flattened 8x8x12 tensor that are 1
board_pattern_features(board) ==
    {(sq \div 8) * 96 + (sq % 8) * 12
        + piece_to_idx[TypeOf[board.pieces[sq]]]
        + (IF HasColor(board, sq, WHITE) THEN 0 ELSE 6) : sq \in piece_map(board)}

max_len == 10

\* hash(move.uci()) % 1000 / 1000.0 for the last max_len moves, 0 elsewhere;
\* hashes is the str hash of the running process
move_sequence_features(move_list, hashes) ==
    LET n == Len(move_list)
        skip == IF n > max_len THEN n - max_len ELSE 0
    IN  [i \in 1..max_len |->
            IF i <= n - skip THEN hashes[move_list[skip + i]] % 1000 ELSE 0]

EvalOk(v) == [status |-> "ok", exc |-> "", value |-> v]

EvalRaise(e) == [status |-> "raise", exc |-> e, value |-> 0]

\* stockfish_eval with the "if not self.engine" guard left out
stockfish_eval_no_guard(eng, score) ==
    IF eng = "None" THEN EvalRaise("AttributeError")
    ELSE IF eng = "terminated" THEN EvalRaise("EngineTerminatedError")
    ELSE EvalOk(score)

\* stockfish_eval(board): 0.0 without an engine, else the score the engine's
\* analysis gives, which an engine that has quit cannot give
stockfish_eval(eng, score) ==
    IF eng = "None" THEN EvalOk(0)
    ELSE IF eng = "terminated" THEN EvalRaise("EngineTerminatedError")
    ELSE EvalOk(score)

\* extract_features(fen, move_list); rand holds the three np.random.rand()
\* draws and score the engine's answer
vector_extract_features(f, move_list, hashes, eng, rand, score) ==
    LET board == Position(f)
        stockfish_score == stockfish_eval(eng, score)
    IN  IF FenRaises(f) THEN Raise("ValueError")
        ELSE IF stockfish_score.status = "raise" THEN Raise(stockfish_score.exc)
        ELSE Ok([boardPatternFeatures |-> board_pattern_features(board),
                 moveSequenceFeatures |-> move_sequence_features(move_list, hashes),
                 styleCluster |-> "aggressive",
                 riskTakingScore |-> rand[1],
                 tacticalAwarenessScore |-> rand[2],
                 endgameSkillScore |-> rand[3],
                 stockfishEval |-> stockfish_score.value])

\* self.engine after close(): quit() ends the engine, the field keeps it
close_engine(eng) == IF eng # "None" THEN "terminated" ELSE eng

\* r1bqkbnr/pppppppp/n7/8/8/N7/PPPPPPPP/R1BQKBNR w KQkq - 0 1
VectorExampleFen ==
    [placement |-> <<
        <<"r", "1", "b", "q", "k", "b", "n", "r">>,
        <<"p", "p", "p", "p", "p", "p", "p", "p">>,
        <<"n", "7">>,
        <<"8">>,
        <<"8">>,
        <<"N", "7">>,
        <<"P", "P", "P", "P", "P", "P", "P", "P">>,
        <<"R", "1", "B", "Q", "K", "B", "N", "R">>>>,
     turn |-> "w", castling |-> {"K", "Q", "k", "q"}, ep |-> NoSquare]

VectorFens == {VectorExampleFen, NineSquaresFen}

UciStrings == {"b1a3"}

MoveLists == {<<>>, <<"b1a3">>}

\* str hashes are salted per process and may be negative
HashTables == [UciStrings -> {-1, 2001}]

MaxRand == 1

\* the values np.random.rand() may return
RandVals == 0..MaxRand

\* the scores an analysis may give, in centipawns
EngineScores == {-50, 30}

\* ------------------------------------------------------------------------
\* State.
\* ------------------------------------------------------------------------
VARIABLES
    fen,            \* the board string of the game's position
    before,         \* the board string before the last move, None at the start
    ply,            \* moves played
    call,           \* the arguments of the last extract_features call
    result,         \* what that call returned or raised
    bundle_before,  \* compare_features' f1
    bundle_after,   \* compare_features' f2
    changes,        \* the mapping compare_features returned
    stockfish_path, \* the vector extractor's stockfish_path
    engine,         \* its engine: "None", "running" or "terminated"
    str_hash,       \* the str hash of the process
    last,           \* the vector extractor's last call and its outcome
    script          \* the last run of the feature script: its fen and features

hvars == <<fen, before, ply, call, result>>

dvars == <<bundle_before, bundle_after, changes>>

vvars == <<stockfish_path, engine, str_hash, last>>

vars ==
    <<fen, before, ply, call, result, bundle_before, bundle_after, changes,
      stockfish_path, engine, str_hash, last, script>>

NoCall == [curr |-> None, prev |-> None]

NoResult == [status |-> "none", exc |-> "", value |-> EmptyDict]

\* no compare_features call made yet
NoChanges == L("none")

\* the heuristic extractor before any call
HeuristicIdle ==
    /\ fen = StartFen
    /\ before = None
    /\ ply = 0
    /\ call = NoCall
    /\ result = NoResult

\* the differ not in use
DifferIdle ==
    /\ bundle_before = EmptyDict
    /\ bundle_after = EmptyDict
    /\ changes = NoChanges

NoVectorCall == [fen |-> None, move_list |-> <<>>, out |-> NoResult]

\* the vector extractor built with no path and not called
VectorIdle ==
    /\ stockfish_path = NoPath
    /\ engine = init_engine(NoPath)
    /\ str_hash = [u \in UciStrings |-> 0]
    /\ last = NoVectorCall

\* the feature script not run
ScriptIdle == script = [fen |-> None, features |-> NoResult]

\* ------------------------------------------------------------------------
\* The heuristic extractor over a game.
\* ------------------------------------------------------------------------
Init ==
    /\ fen \in Catalog
    /\ before = None
    /\ ply = 0
    /\ call = NoCall
    /\ result = NoResult
    /\ DifferIdle
    /\ VectorIdle
    /\ ScriptIdle

\* extract_features(curr=c, prev=p), the whole call
Call(c, p) ==
    /\ call' = [curr |-> c, prev |-> p]
    /\ result' = extract_features(c, p)
    /\ UNCHANGED <<fen, before, ply, dvars, vvars, script>>

\* the features of the position
Extract == Call(fen, None)

\* what the last move changed
ExtractDiff == before # None /\ Call(fen, before)

\* the position against itself
ExtractSame == Call(fen, fen)

\* A move is played and the new position written as a board string.
PlayMove ==
    /\ ply < MaxPly
    /\ ~FenRaises(fen)
    /\ \E m \in FirstMoves(GenerateLegalMoves(Position(fen)), MaxMoves) :
          fen' = FenAfter(fen, m)
    /\ before' = fen
    /\ ply' = ply + 1
    /\ call' = NoCall
    /\ result' = NoResult
    /\ UNCHANGED <<dvars, vvars, script>>

\* A pawn of either colour is put on an empty square of a pawnless file
\* that holds a rook, and the new position written as a board string.
PlacePawn ==
    /\ before = None
    /\ ply < MaxPly
    /\ ~FenRaises(fen)
    /\ \E sq \in SQUARES, color \in {WHITE, BLACK} :
          LET board == Position(fen)
          IN  /\ board.pieces[sq] = Empty
              /\ ~has_pawn(board, square_file(sq))
              /\ \E r \in SQUARES : /\ square_file(r) = square_file(sq)
                                     /\ board.pieces[r] # Empty
                                     /\ TypeOf[board.pieces[r]] = "r"
              /\ fen' = FenWithPawn(fen, sq, color)
    /\ before' = fen
    /\ ply' = ply + 1
    /\ call' = NoCall
    /\ result' = NoResult
    /\ UNCHANGED <<dvars, vvars, script>>

Next == Extract \/ ExtractDiff \/ ExtractSame \/ PlayMove \/ PlacePawn

Spec == Init /\ [][Next]_vars

\* ------------------------------------------------------------------------
\* The differ on any two bundles.
\* ------------------------------------------------------------------------
InitDiff ==
    /\ HeuristicIdle
    /\ bundle_before \in Bundles
    /\ bundle_after \in Bundles
    /\ changes = NoChanges
    /\ VectorIdle
    /\ ScriptIdle

\* changes = compare_features(f1, f2)
Compare ==
    /\ changes = NoChanges
    /\ changes' = compare_features(bundle_before, bundle_after)
    /\ LET run == compare_run(bundle_before, bundle_after)
       IN  /\ bundle_before' = Load(run.heap, run.f1)
           /\ bundle_after' = Load(run.heap, run.f2)
    /\ UNCHANGED <<hvars, vvars, script>>

NextDiff == Compare

SpecDiff == InitDiff /\ [][NextDiff]_vars

\* ------------------------------------------------------------------------
\* The vector extractor from its construction on.
\* ------------------------------------------------------------------------
InitVec ==
    /\ HeuristicIdle
    /\ DifferIdle
    /\ stockfish_path \in Paths
    /\ engine = init_engine(stockfish_path)
    /\ str_hash \in HashTables
    /\ last = NoVectorCall
    /\ ScriptIdle

\* extractor.extract_features(fen, move_list)
VectorExtract ==
    /\ \E f \in VectorFens, move_list \in MoveLists,
          rand \in [1..3 -> RandVals], score \in EngineScores :
          last' = [fen |-> f, move_list |-> move_list,
                   out |-> vector_extract_features(f, move_list, str_hash,
                                                   engine, rand, score)]
    /\ UNCHANGED <<hvars, dvars, script, stockfish_path, engine, str_hash>>

\* extractor.close()
Close ==
    /\ engine' = close_engine(engine)
    /\ UNCHANGED <<hvars, dvars, script, stockfish_path, str_hash, last>>

NextVec == VectorExtract \/ Close

SpecVec == InitVec /\ [][NextVec]_vars

\* ------------------------------------------------------------------------
\* The feature script next to the heuristic extractor: the script is run
\* with its fen line set to the position of the game, the extractor is
\* called with the same board string.
\* ------------------------------------------------------------------------
\* python features.py: board = chess.Board(fen), then features is filled
RunScript ==
    /\ script' = [fen |-> fen, features |-> script_run(fen)]
    /\ UNCHANGED <<hvars, dvars, vvars>>

NextScript == RunScript \/ Extract \/ PlayMove

SpecScript == Init /\ [][NextScript]_vars

\* ------------------------------------------------------------------------
\* Properties of the differ.
\* ------------------------------------------------------------------------

\* the value at a key changed: a leaf by inequality, a nested record when
\* some key of the after-record is new or has itself changed
RECURSIVE Differs(_, _)
Differs(val1, val2) ==
    IF val2.kind = "dict"
    THEN \E k \in Keys(val2) :
            k \notin Keys(val1) \/ Differs(val1.items[k], val2.items[k])
    ELSE val1 # val2

\* d reports, among the keys f1 and f2 share, exactly the changed ones, and
\* so does every nested record it reports
RECURSIVE ReportsChanged(_, _, _)
ReportsChanged(f1, f2, d) ==
    \A k \in Keys(f1) \cap Keys(f2) :
        /\ k \in Keys(d) <=> Differs(f1.items[k], f2.items[k])
        /\ k \in Keys(d) /\ f2.items[k].kind = "dict"
              => ReportsChanged(f1.items[k], f2.items[k], d.items[k])

\* C1: for a key in both bundles, the diff holds the key if and only if its
\* value changed (a leaf differs; a nested record has a non-empty diff), at
\* every nesting level.
C1_ChangedKeysReported ==
    changes # NoChanges => ReportsChanged(bundle_before, bundle_after, changes)

\* A diff of bundles sharing all three keys: the scalar changed, the pair
\* is identical and the nested pair changed in its innermost leaf.
C1_Witness ==
    /\ changes # NoChanges
    /\ Keys(bundle_before) = {"mobility", "material", "pawn_structure"}
    /\ Keys(bundle_after) = {"mobility", "material", "pawn_structure"}
    /\ bundle_before.items["mobility"] # bundle_after.items["mobility"]
    /\ bundle_before.items["material"] = bundle_after.items["material"]
    /\ Keys(bundle_after.items["material"]) = {"white", "black"}
    /\ Keys(bundle_before.items["pawn_structure"]) = {"white"}
    /\ Keys(bundle_after.items["pawn_structure"]) = {"white"}
    /\ Keys(bundle_before.items["pawn_structure"].items["white"]) = {"passed"}
    /\ Keys(bundle_after.items["pawn_structure"].items["white"]) = {"passed"}
    /\ bundle_before.items["pawn_structure"] # bundle_after.items["pawn_structure"]
    /\ Keys(changes) = {"mobility", "pawn_structure"}

\* d holds every key only f2 has with f2's value, and no key only f1 has,
\* in d itself and in every nested record d reports for a shared key
RECURSIVE OneSided(_, _, _)
OneSided(f1, f2, d) ==
    /\ \A k \in Keys(f2) \ Keys(f1) : k \in Keys(d) /\ d.items[k] = f2.items[k]
    /\ \A k \in Keys(f1) \ Keys(f2) : k \notin Keys(d)
    /\ \A k \in Keys(f1) \cap Keys(f2) \cap Keys(d) :
          f2.items[k].kind = "dict"
              => OneSided(f1.items[k], f2.items[k], d.items[k])

\* C2: a key only the after-bundle has is in the diff with the after-bundle's
\* value unchanged, a key only the before-bundle has is never in the diff,
\* at every nesting level.
C2_Asymmetric ==
    changes # NoChanges => OneSided(bundle_before, bundle_after, changes)

\* A diff where the after-bundle alone has a nested key and a nested leaf,
\* and the before-bundle alone has a key and a nested leaf.
C2_Witness ==
    /\ changes # NoChanges
    /\ "pawn_structure" \in Keys(bundle_after) \ Keys(bundle_before)
    /\ bundle_after.items["pawn_structure"] # EmptyDict
    /\ "mobility" \in Keys(bundle_before) \ Keys(bundle_after)
    /\ "material" \in Keys(bundle_before) \cap Keys(bundle_after)
    /\ Keys(bundle_before.items["material"]) = {"white"}
    /\ Keys(bundle_after.items["material"]) = {"black"}
    /\ Keys(changes) = {"material", "pawn_structure"}

\* every key path of d is a key path of f2, and a leaf of d is f2's leaf
RECURSIVE PrunedFrom(_, _)
PrunedFrom(d, f2) ==
    \A k \in Keys(d) :
        /\ k \in Keys(f2)
        /\ d.items[k].kind = f2.items[k].kind
        /\ IF d.items[k].kind = "dict"
           THEN PrunedFrom(d.items[k], f2.items[k])
           ELSE d.items[k] = f2.items[k]

\* C6: the diff is the after-bundle pruned: each of its key paths is a key
\* path of the after-bundle and each leaf it reports is the after-bundle's
\* value at that path.
C6_PrunedAfterBundle ==
    changes # NoChanges => PrunedFrom(changes, bundle_after)

\* A diff reporting a changed scalar and a changed innermost leaf, each with
\* a value that is not the one before.
C6_Witness ==
    /\ changes # NoChanges
    /\ {"mobility", "pawn_structure"} \subseteq Keys(changes)
    /\ "mobility" \in Keys(bundle_before)
    /\ changes.items["mobility"] # bundle_before.items["mobility"]
    /\ "pawn_structure" \in Keys(bundle_before)
    /\ "white" \in Keys(bundle_before.items["pawn_structure"])
    /\ "white" \in Keys(changes.items["pawn_structure"])
    /\ "passed" \in Keys(bundle_before.items["pawn_structure"].items["white"])
    /\ "passed" \in Keys(changes.items["pawn_structure"].items["white"])
    /\ changes.items["pawn_structure"].items["white"].items["passed"]
          # bundle_before.items["pawn_structure"].items["white"].items["passed"]

\* ------------------------------------------------------------------------
\* Properties of the heuristic extractor.
\* ------------------------------------------------------------------------

\* the kings of one colour in the placement of a board string that parses
KingCount(f, color) == Cardinality(pieces(Position(f), "k", color))

\* a board string that parses, with exactly one king of each colour
OneKingEach(f) ==
    ~FenRaises(f) /\ \A color \in {WHITE, BLACK} : KingCount(f, color) = 1

\* C3: extract_features(curr=s, prev=s) returns the empty mapping for every
\* valid board string s.
C3_SelfDiffEmpty ==
    call.prev # None /\ call.prev = call.curr
        => /\ result.status = "ok" => result.value = EmptyDict
           /\ OneKingEach(call.curr) => result.status = "ok"

\* The example position after 1.e4 2.Nf3 diffed against itself.
C3_Witness ==
    /\ call.curr = ExampleFen
    /\ call.prev = ExampleFen
    /\ result = Ok(EmptyDict)

\* the call diffs the starting position against a position one white
\* knight move later
KnightMoveCall ==
    /\ call.prev = StartFen
    /\ \E m \in GenerateLegalMoves(Position(StartFen)) :
          /\ Position(StartFen).pieces[m.from_square] = "N"
          /\ call.curr = FenAfter(StartFen, m)

\* d reports the leaf side of feature k
HasSide(d, k, side) == k \in Keys(d) /\ side \in Keys(d.items[k])

\* the features for which d reports an entry under "black"
BlackEntries(d) == {k \in Keys(d) : d.items[k].kind = "dict"
                                      /\ "black" \in Keys(d.items[k])}

FeatureKeys ==
    {"material", "mobility", "king_safety", "pawn_structure", "center_control",
     "development", "rook_activity", "threats", "piece_activity",
     "piece_coordination", "bishop_pair_bonus", "open_file_control",
     "space_advantage", "weak_squares", "outposts", "pinned_pieces",
     "attacked_vs_defended", "castling_status", "king_zone_control",
     "rook_on_7th_rank", "connected_rooks", "passed_pawn_advancement",
     "pawn_shield", "backward_pawns", "isolated_weakness_clusters"}

\* C5: a bundle has exactly the 25 feature keys; mobility is a scalar and
\* every other key maps to a pair with exactly the keys white and black.
C5_BundleKeys ==
    call # NoCall /\ call.prev = None /\ result.status = "ok" =>
        /\ Keys(result.value) = FeatureKeys
        /\ Cardinality(Keys(result.value)) = 25
        /\ result.value.items["mobility"].kind = "leaf"
        /\ \A k \in FeatureKeys \ {"mobility"} :
              /\ result.value.items[k].kind = "dict"
              /\ Keys(result.value.items[k]) = {"white", "black"}

\* The bundle of the position where both sides can castle either way.
C5_Witness ==
    /\ call.curr = RookFen
    /\ call.prev = None
    /\ result.status = "ok"
    /\ result.value.items["mobility"].val > 0

\* C7: extraction raises nothing on a position with one king per colour,
\* kings and pawns on edge files and ranks included, and with no legal move
\* mobility and both piece_activity counts are 0.
C7_TotalOnValidPositions ==
    /\ call # NoCall
    /\ OneKingEach(call.curr)
    /\ call.prev = None \/ OneKingEach(call.prev)
    => /\ result.status = "ok"
       /\ call.prev = None /\ GenerateLegalMoves(Position(call.curr)) = {}
             => /\ result.value.items["mobility"] = L(0)
                /\ result.value.items["piece_activity"] = Pair(0, 0)

\* The bundle of the back-rank mate, where black has no legal move.
C7_Witness ==
    /\ call.curr = MateFen
    /\ call.prev = None
    /\ result.status = "ok"
    /\ result.value.items["mobility"] = L(0)

\* C8 as stated: a board string whose placement has no king or several kings
\* of some colour is rejected with the error of a malformed board string.
C8_AsStated ==
    /\ call # NoCall
    /\ ~FenRaises(call.curr)
    /\ ~OneKingEach(call.curr)
    => result = Raise("ValueError")

\* ------------------------------------------------------------------------
\* Properties of the vector extractor.
\* ------------------------------------------------------------------------

\* the extractor was built with no engine path or with one that did not start
EngineUnavailable == stockfish_path \in {NoPath, BadPath}

\* a call made without an engine ended well: stockfishEval is 0.0, or the
\* board string did not parse and that alone was raised
CompletedWithoutEngine(c) ==
    IF FenRaises(c.fen) THEN c.out = Raise("ValueError")
    ELSE c.out.status = "ok" /\ c.out.value.stockfishEval = 0

\* C9: with no engine path, or with an engine that failed to start, the
\* extractor is built with engine None and every later extract_features
\* call on a board string that parses returns a result with stockfishEval
\* 0.0; the absence of the engine raises nothing.
C9_EngineAbsenceTolerated ==
    EngineUnavailable =>
        /\ engine = "None"
        /\ last # NoVectorCall => CompletedWithoutEngine(last)

\* A call on the example position by an extractor whose engine path did
\* not start an engine.
C9_Witness ==
    /\ stockfish_path = BadPath
    /\ last.fen = VectorExampleFen
    /\ last.move_list # <<>>
    /\ last.out.status = "ok"
    /\ last.out.value.stockfishEval = 0

\* C10 as stated: two extract_features calls of the vector extractor with no
\* engine and the same inputs return equal outputs.
C10_AsStated ==
    [][/\ engine = "None"
       /\ last # NoVectorCall
       /\ last'.fen = last.fen
       /\ last'.move_list = last.move_list
       => last'.out = last.out]_vars

\* ------------------------------------------------------------------------
\* Properties of the single features.
\* ------------------------------------------------------------------------

\* the call returned the bundle of one position
BundleReturned == call # NoCall /\ call.prev = None /\ result.status = "ok"

\* the value the returned record holds for feature k and the side
SideVal(d, k, color) ==
    d.items[k].items[IF color = WHITE THEN "white" ELSE "black"].val

\* C11: in the standard starting position material is equal for both
\* colours, mobility is positive, both colours hold castling rights and both
\* pawn shields are 3.
C11_StartPosition ==
    call.curr = StartFen /\ call.prev = None =>
        /\ result.status = "ok"
        /\ SideVal(result.value, "material", WHITE)
              = SideVal(result.value, "material", BLACK)
        /\ result.value.items["mobility"].val > 0
        /\ result.value.items["castling_status"] = Pair(TRUE, TRUE)
        /\ result.value.items["pawn_shield"] = Pair(3, 3)

\* The bundle of the standard starting position.
C11_Witness ==
    /\ call.curr = StartFen
    /\ call.prev = None
    /\ result.status = "ok"
    /\ result.value.items["material"] = Pair(39, 39)

\* the squares of the placement of f that hold the symbol
SquaresOf(f, symbol) ==
    LET ps == Position(f).pieces
    IN  {sq \in SQUARES : ps[sq] = symbol}

\* the file holds no pawn of either colour in the placement of f
PawnlessFile(f, file) ==
    LET pawns == SquaresOf(f, "P") \cup SquaresOf(f, "p")
    IN  \A sq \in pawns : square_file(sq) # file

\* the rooks of the colour on pawnless files
OpenFileRooks(f, color) ==
    {sq \in SquaresOf(f, Sym("r", color)) : PawnlessFile(f, square_file(sq))}

\* the queens of the colour on pawnless files
OpenFileQueens(f, color) ==
    {sq \in SquaresOf(f, Sym("q", color)) : PawnlessFile(f, square_file(sq))}

\* the squares where the placement of fen differs from that of before
ChangedSquares ==
    LET now == Position(fen).pieces
        then == Position(before).pieces
    IN  {sq \in SQUARES : now[sq] # then[sq]}

\* fen is before with one pawn added on an empty square
PawnPlaced ==
    /\ before # None
    /\ fen.turn = before.turn
    /\ Cardinality(ChangedSquares) = 1
    /\ \A sq \in ChangedSquares :
          /\ Position(before).pieces[sq] = Empty
          /\ Position(fen).pieces[sq] \in {"P", "p"}

\* the file the pawn was put on
PlacedFile == square_file(CHOOSE sq \in ChangedSquares : TRUE)

\* the rooks of the colour that stood on the pawnless file the pawn was put on
CoveredRooks(color) ==
    {sq \in OpenFileRooks(before, color) : square_file(sq) = PlacedFile}

\* C12: rook_activity counts the colour's rooks on files without a pawn of
\* either colour and open_file_control counts them too (with the queens on
\* such files); once a pawn of either colour is put anywhere on such a file,
\* the next extraction counts the rooks of that file in neither.
C12_OpenFileDetection ==
    /\ BundleReturned => \A color \in {WHITE, BLACK} :
          /\ SideVal(result.value, "rook_activity", color)
                = Cardinality(OpenFileRooks(call.curr, color))
          /\ SideVal(result.value, "open_file_control", color)
                = Cardinality(OpenFileRooks(call.curr, color))
                  + Cardinality(OpenFileQueens(call.curr, color))
    /\ PawnPlaced /\ BundleReturned /\ call.curr = fen =>
          \A color \in {WHITE, BLACK} :
             /\ SideVal(result.value, "rook_activity", color)
                   = Cardinality(OpenFileRooks(before, color))
                     - Cardinality(CoveredRooks(color))
             /\ SideVal(result.value, "open_file_control", color)
                   <= Cardinality(OpenFileRooks(before, color))
                      + Cardinality(OpenFileQueens(before, color))
                      - Cardinality(CoveredRooks(color))

\* A black pawn was put on the a-file of the position where the white rooks
\* stood on the pawnless a- and h-files, and the bundle taken again: one
\* white rook is left on a pawnless file.
C12_Witness ==
    /\ before = RookFen
    /\ PawnPlaced
    /\ Position(fen).pieces[square(0, 4)] = "p"
    /\ BundleReturned
    /\ call.curr = fen
    /\ SideVal(result.value, "rook_activity", WHITE) = 1
    /\ SideVal(result.value, "open_file_control", WHITE) = 2

\* the squares next to sq
AdjacentSquares(sq) ==
    {s \in SQUARES \ {sq} :
        /\ Abs(square_file(s) - square_file(sq)) <= 1
        /\ Abs(square_rank(s) - square_rank(sq)) <= 1}

\* how many squares next to the colour's king the other colour attacks
AttackedAroundKing(f, color) ==
    LET ps == Position(f).pieces
        king_sq == CHOOSE sq \in SQUARES : ps[sq] = Sym("k", color)
    IN  Cardinality({s \in AdjacentSquares(king_sq) : Attacked(ps, ~color, s)})

\* C13: king_safety is "Safe" exactly when at most 2 squares next to the
\* king are attacked by the opponent and the colour holds no castling right,
\* and "Exposed" otherwise.
C13_KingSafetyRule ==
    BundleReturned /\ OneKingEach(call.curr) =>
        \A color \in {WHITE, BLACK} :
            SideVal(result.value, "king_safety", color)
              = IF /\ AttackedAroundKing(call.curr, color) <= 2
                   /\ ~has_castling_rights(Position(call.curr), color)
                THEN "Safe" ELSE "Exposed"

\* The bundle of the stalemate: white holds no castling right and is Safe,
\* black holds none either and is Exposed with three attacked squares.
C13_Witness ==
    /\ BundleReturned
    /\ call.curr = StalemateFen
    /\ AttackedAroundKing(call.curr, BLACK) = 3
    /\ result.value.items["king_safety"] = Pair("Safe", "Exposed")

\* the pawns of the colour in the placement of f
PawnsOf(f, color) == SquaresOf(f, Sym("p", color))

\* sq is strictly ahead of the pawn p of the colour on p's file, toward
\* promotion
Ahead(color, p, sq) ==
    /\ square_file(sq) = square_file(p)
    /\ IF color = WHITE THEN square_rank(sq) > square_rank(p)
       ELSE square_rank(sq) < square_rank(p)

\* the pawns of the colour with no enemy pawn ahead of them
PassedPawns(f, color) ==
    LET enemy == PawnsOf(f, ~color)
    IN  {p \in PawnsOf(f, color) : \A sq \in enemy : ~Ahead(color, p, sq)}

\* the value of a feature whose sides are records
SideField(d, k, color, field) ==
    d.items[k].items[IF color = WHITE THEN "white" ELSE "black"].items[field].val

\* C14 as stated: pawn_structure.passed is the number of the colour's pawns
\* with no enemy pawn on their file strictly ahead, toward promotion.
C14_AsStated ==
    BundleReturned =>
        \A color \in {WHITE, BLACK} :
            SideField(result.value, "pawn_structure", color, "passed")
              = Cardinality(PassedPawns(call.curr, color))

\* the ranks the pawn p of the colour has advanced from its start rank
Advanced(color, p) ==
    IF color = WHITE THEN square_rank(p) - 1 ELSE 6 - square_rank(p)

\* C15 as stated: passed_pawn_advancement is the sum, over the colour's
\* passed pawns, of the ranks advanced from the start rank.
C15_AsStated ==
    BundleReturned =>
        \A color \in {WHITE, BLACK} :
            SideVal(result.value, "passed_pawn_advancement", color)
              = SumOver(PassedPawns(call.curr, color),
                        [p \in SQUARES |-> Advanced(color, p)])

\* a pawn of the colour stands next to p's file, one rank behind p
Supported(f, color, p) ==
    LET behind == IF color = WHITE THEN square_rank(p) - 1
                  ELSE square_rank(p) + 1
    IN  \E s \in PawnsOf(f, color) :
           /\ Abs(square_file(s) - square_file(p)) = 1
           /\ square_rank(s) = behind

\* C16 as stated: backward_pawns is the number of the colour's pawns with no
\* pawn of the same colour on an adjacent file one rank behind; enemy pawns
\* and squares reached by wrapping round the board edge do not support.
C16_AsStated ==
    BundleReturned =>
        \A color \in {WHITE, BLACK} :
            SideVal(result.value, "backward_pawns", color)
              = Cardinality({p \in PawnsOf(call.curr, color) :
                               ~Supported(call.curr, color, p)})

\* the rooks a and b stand on one rank or one file with no piece between them
RookSees(f, a, b) ==
    LET ps == Position(f).pieces
        between == {sq \in SQUARES :
                      \/ /\ square_rank(a) = square_rank(b)
                         /\ square_rank(sq) = square_rank(a)
                         /\ \/ square_file(a) < square_file(sq) /\ square_file(sq) < square_file(b)
                            \/ square_file(b) < square_file(sq) /\ square_file(sq) < square_file(a)
                      \/ /\ square_file(a) = square_file(b)
                         /\ square_file(sq) = square_file(a)
                         /\ \/ square_rank(a) < square_rank(sq) /\ square_rank(sq) < square_rank(b)
                            \/ square_rank(b) < square_rank(sq) /\ square_rank(sq) < square_rank(a)}
    IN  /\ a # b
        /\ square_rank(a) = square_rank(b) \/ square_file(a) = square_file(b)
        /\ \A sq \in between : ps[sq] = Empty

\* C17 as stated: connected_rooks is 1 exactly when the colour has two rooks
\* and each defends the square of the other; rooks defended only by other
\* pieces of the colour give 0.
C17_AsStated ==
    BundleReturned =>
        \A color \in {WHITE, BLACK} :
            LET rooks == SquaresOf(call.curr, Sym("r", color))
            IN  SideVal(result.value, "connected_rooks", color)
                  = IF /\ Cardinality(rooks) = 2
                       /\ \A a, b \in rooks : a # b => RookSees(call.curr, a, b)
                    THEN 1 ELSE 0

\* the squares of the pieces of the colour in the placement of f
PiecesOf(f, color) ==
    LET ps == Position(f).pieces
    IN  {sq \in SQUARES : ps[sq] \in SymbolsOf(color)}

\* C18 as stated: attacked_vs_defended counts only the squares of the
\* colour's own pieces: attacked those the opponent attacks, defended those
\* the colour attacks itself.
C18_AsStated ==
    BundleReturned =>
        \A color \in {WHITE, BLACK} :
            LET ps == Position(call.curr).pieces
                own == PiecesOf(call.curr, color)
            IN  /\ SideField(result.value, "attacked_vs_defended", color, "attacked")
                     = Cardinality(own \cap AttackSet(ps, ~color))
                /\ SideField(result.value, "attacked_vs_defended", color, "defended")
                     = Cardinality(own \cap AttackSet(ps, color))

\* C19 as stated: weak_squares is the number of the squares d4, d5, e4, e5
\* that hold no piece of the colour and are not attacked by it; a square held
\* by an enemy piece and not attacked by the colour counts.
C19_AsStated ==
    BundleReturned =>
        \A color \in {WHITE, BLACK} :
            LET ps == Position(call.curr).pieces
                own == PiecesOf(call.curr, color)
            IN  SideVal(result.value, "weak_squares", color)
                  = Cardinality(center \ (own \cup AttackSet(ps, color)))

\* the squares in front of the colour's king: the next rank toward the other
\* side, on the king's file and the files next to it, as far as the board
\* reaches
ShieldSquares(f, color) ==
    LET ps == Position(f).pieces
        king_sq == CHOOSE sq \in SQUARES : ps[sq] = Sym("k", color)
        front == IF color = WHITE THEN square_rank(king_sq) + 1
                 ELSE square_rank(king_sq) - 1
    IN  {sq \in SQUARES :
           /\ square_rank(sq) = front
           /\ Abs(square_file(sq) - square_file(king_sq)) <= 1}

\* the king of the colour stands on the rank farthest from its own side
OnLastRank(f, color) ==
    \E sq \in SquaresOf(f, Sym("k", color)) :
        square_rank(sq) = IF color = WHITE THEN 7 ELSE 0

\* C20: pawn_shield is the number of the colour's pawns on the rank directly
\* in front of its king, on the king's file or a file next to it; files and
\* ranks off the board add nothing, so the value lies in 0..3 and is 0 when
\* the king stands on its last rank.
C20_PawnShield ==
    BundleReturned /\ OneKingEach(call.curr) =>
        \A color \in {WHITE, BLACK} :
            LET shield == SideVal(result.value, "pawn_shield", color)
            IN  /\ shield = Cardinality(ShieldSquares(call.curr, color)
                                          \cap PawnsOf(call.curr, color))
                /\ shield \in 0..3
                /\ OnLastRank(call.curr, color) => shield = 0

\* The bundle of a position whose white king stands on h1 behind the pawns
\* g2 and h2, with a white pawn on a3, the square chess.square(8, 1) names.
C20_Witness ==
    /\ BundleReturned
    /\ call.curr = CornerShieldFen
    /\ square(8, 1) \in PawnsOf(call.curr, WHITE)
    /\ Cardinality(ShieldSquares(call.curr, WHITE)) = 2
    /\ result.value.items["pawn_shield"] = Pair(2, 0)

\* the files that hold a pawn of the colour while neither file next to them
\* holds one
LonelyFiles(f, color) ==
    LET pawns == PawnsOf(f, color)
        holds == [file \in -1..8 |-> \E p \in pawns : square_file(p) = file]
    IN  {file \in 0..7 : holds[file] /\ ~holds[file - 1] /\ ~holds[file + 1]}

\* C21: pawn_structure.isolated and isolated_weakness_clusters both equal
\* the number of distinct files that hold a pawn of the colour while neither
\* adjacent file holds one, and so equal each other.
C21_IsolatedFiles ==
    BundleReturned =>
        \A color \in {WHITE, BLACK} :
            LET lonely == Cardinality(LonelyFiles(call.curr, color))
            IN  /\ SideField(result.value, "pawn_structure", color, "isolated") = lonely
                /\ SideVal(result.value, "isolated_weakness_clusters", color) = lonely

\* The bundle of the position with pawns on the edge files: black's three
\* pawns stand on two isolated files, white's two pawns on two.
C21_Witness ==
    /\ BundleReturned
    /\ call.curr = EdgeFen
    /\ Cardinality(PawnsOf(call.curr, BLACK)) = 3
    /\ LonelyFiles(call.curr, BLACK) = {0, 7}
    /\ result.value.items["isolated_weakness_clusters"] = Pair(2, 2)

\* the legal moves of the position of f
LegalMovesOf(f) == GenerateLegalMoves(Position(f))

\* the legal moves of the position of f that start on a piece of the colour
MovesFrom(f, color) ==
    LET ps == Position(f).pieces
    IN  {m \in LegalMovesOf(f) : ps[m.from_square] \in SymbolsOf(color)}

\* the side to move in the position of f
SideToMove(f) == f.turn = "w"

SamePosition == call # NoCall /\ call.prev = None /\ script.fen = call.curr

\* C23: the module-level feature functions of backend/features.py return
\* what the methods of the same name return, so for the same board string
\* the dict the script fills equals the bundle extract_features returns (and
\* both stop with the same exception where they stop with one).
C23_ScriptEquivalent ==
    SamePosition => script.features = result

\* The script run on its own fen line and the extractor called with that
\* board string, both with a full bundle.
C23_Witness ==
    /\ SamePosition
    /\ call.curr = ScriptFen
    /\ result.status = "ok"
    /\ script.features.status = "ok"
    /\ script.features.value.items["mobility"] = L(20)
    /\ script.features.value.items["center_control"] = Pair(1, 0)

\* C25: open_file_control is never below rook_activity, and exceeds it by the
\* number of the colour's queens on files with no pawn of either colour.
C25_QueensOnOpenFiles ==
    BundleReturned =>
        \A color \in {WHITE, BLACK} :
            LET control == SideVal(result.value, "open_file_control", color)
                activity == SideVal(result.value, "rook_activity", color)
            IN  /\ control >= activity
                /\ control - activity
                      = Cardinality(OpenFileQueens(call.curr, color))

\* The bundle of the position with white's rooks on the pawnless a- and
\* h-files and the white queen on the pawnless d-file.
C25_Witness ==
    /\ BundleReturned
    /\ call.curr = RookFen
    /\ OpenFileQueens(call.curr, WHITE) = {square(3, 0)}
    /\ result.value.items["rook_activity"] = Pair(2, 2)
    /\ result.value.items["open_file_control"] = Pair(3, 2)

\* C26: a compare_features call leaves f1 and f2 with the keys and values
\* they held before, nested records included: no object that existed before
\* the call is written, and the returned dict is an object made by the call.
C26_InputsUnchanged ==
    [][changes' # changes =>
          LET run == compare_run(bundle_before, bundle_after)
          IN  /\ bundle_before' = bundle_before
              /\ bundle_after' = bundle_after
              /\ SubSeq(run.heap, 1, Len(run.before)) = run.before
              /\ run.diff > Len(run.before)
              /\ Load(run.heap, run.diff) = changes']_vars

\* A call that went into nested records two levels deep and reported a
\* changed leaf there, a changed leaf of a pair and a changed scalar.
C26_Witness ==
    /\ changes # NoChanges
    /\ Keys(changes) = {"mobility", "material", "pawn_structure"}
    /\ Keys(bundle_before) = Keys(changes)
    /\ changes.items["material"].kind = "dict"
    /\ "white" \in Keys(bundle_before.items["pawn_structure"])
    /\ "passed" \in Keys(bundle_before.items["pawn_structure"].items["white"])
    /\ changes.items["pawn_structure"] = D([white |-> D([passed |-> L(1)])])

\* C27 as stated: once close() has been called, a later extract_features
\* call sends no analysis request to the engine that has quit: it returns as
\* it does with no engine, with stockfishEval 0.0 (a malformed board string
\* still raises ValueError); and close() on an extractor that holds no engine
\* changes nothing.
C27_AsStated ==
    [][/\ engine = "terminated" /\ last' # last =>
            /\ last'.out.exc # "EngineTerminatedError"
            /\ last'.out.status = "ok" => last'.out.value.stockfishEval = 0
       /\ engine = "None" => engine' = "None"]_vars

====
